---------------------------- MODULE Spec2Model ----------------------------
(***************************************************************************)
(* A model of the document-to-flashcard extraction pipeline of             *)
(* app/services/chunker.py (class AgenticChunker) and of the filter of     *)
(* app/services/flashcard.py.                                              *)
(*                                                                         *)
(* Python strings are sequences of one-character strings, so that strip(), *)
(* lower() and len() are computed and not assumed.  Python list objects    *)
(* (the QA-pair lists) live in a heap, `lists', and are referred to by     *)
(* their identity: the cache, the results and the chunks share them as     *)
(* the code does.                                                          *)
(***************************************************************************)
EXTENDS Integers, Sequences, FiniteSets, TLC

VARIABLES
    vcand,      \* SpecValidator: the candidate handed to the validator
    vout,       \* SpecValidator: what the validator made of it
    qa_cache,   \* self.qa_cache: cache key -> identity of a QA-pair list
    lists,      \* the heap of Python list objects: identity -> its pairs now
    ncalls,     \* SpecExtract: direct calls of extract_qa_pairs_batch so far
    xlast,      \* SpecExtract: the last direct call, its input and its return
    xpre,       \* SpecExtract: qa_cache and lists on entry of the last call
    merge_cache,\* self.merge_cache: cache key -> decision
    pc,         \* SpecPipeline: where chunk_segments[_async] stands
    mode,       \* SpecPipeline: "sync" (chunk_segments) or "async"
    segments,   \* SpecPipeline: the argument of the call
    tasks,      \* SpecPipeline: the extraction batches of the call, in order
    chunks,     \* SpecPipeline: the chunk dicts, segment_chunks in order
    final_chunks,\* SpecPipeline: final_chunks, as identities of chunks
    mtasks,     \* SpecPipeline: the merge batches of the call, in order
    recheck,    \* SpecPipeline: a later extract_qa_pairs_batch of a batch
    oracle,     \* SpecModes: the rules the model answers by
    earlier,    \* SpecModes: the mode and the return of the first call
    text_content, \* SpecText, SpecUpload: the text handed to chunk_text[_async]
    file_content, \* SpecUpload: the bytes of the uploaded file
    upload,     \* SpecUpload: where process_text_file_to_flashcards stands
    search,     \* SpecSearch: a call of the search_flashcards tool
    reply,      \* SpecRecover: the text of the model's response, how it was made
    recovered,  \* SpecRecover: what the repair and the recovery made of it
    study       \* SpecSession: user_states[user_id] and the request under way

valVars == <<vcand, vout>>
chunkerVars == <<qa_cache, lists, merge_cache>>
extVars == <<ncalls, xlast, xpre>>
pipeVars == <<pc, mode, segments, tasks, chunks, final_chunks, mtasks, recheck>>
modesVars == <<oracle, earlier>>
recoverVars == <<reply, recovered>>
outerVars == <<text_content, file_content, upload, search, reply, recovered, study>>
vars == <<vcand, vout, qa_cache, lists, ncalls, xlast, xpre, merge_cache,
          pc, mode, segments, tasks, chunks, final_chunks, mtasks, recheck,
          oracle, earlier, text_content, file_content, upload,
          search, reply, recovered, study>>

(***************************************************************************)
(* Strings                                                                 *)
(***************************************************************************)
IsSpace(c) == c \in {" ", "\t", "\n", "\r"}

RECURSIVE LStrip(_)
LStrip(s) ==
    IF s = <<>> THEN <<>>
    ELSE IF IsSpace(Head(s)) THEN LStrip(Tail(s)) ELSE s

RECURSIVE RStrip(_)
RStrip(s) ==
    IF s = <<>> THEN <<>>
    ELSE IF IsSpace(s[Len(s)]) THEN RStrip(SubSeq(s, 1, Len(s) - 1)) ELSE s

\* str.strip()
Strip(s) == RStrip(LStrip(s))

LowerChar(c) ==
    CASE c = "A" -> "a" [] c = "B" -> "b" [] c = "C" -> "c" [] c = "D" -> "d"
      [] c = "E" -> "e" [] c = "F" -> "f" [] c = "G" -> "g" [] c = "H" -> "h"
      [] c = "I" -> "i" [] c = "J" -> "j" [] c = "K" -> "k" [] c = "L" -> "l"
      [] c = "M" -> "m" [] c = "N" -> "n" [] c = "O" -> "o" [] c = "P" -> "p"
      [] c = "Q" -> "q" [] c = "R" -> "r" [] c = "S" -> "s" [] c = "T" -> "t"
      [] c = "U" -> "u" [] c = "V" -> "v" [] c = "W" -> "w" [] c = "X" -> "x"
      [] c = "Y" -> "y" [] c = "Z" -> "z" [] OTHER -> c

\* str.lower()
Lower(s) == [i \in 1..Len(s) |-> LowerChar(s[i])]

(***************************************************************************)
(* JSON values of a candidate's fields: a string, null, a number, or the   *)
(* key is missing.  Every value carries the same fields.                   *)
(***************************************************************************)
JStr(s) == [t |-> "str", s |-> s]
JNull == [t |-> "null", s |-> <<>>]
JNum == [t |-> "num", s |-> <<>>]
JMissing == [t |-> "missing", s |-> <<>>]

\* A candidate QA pair as the model returned it: a JSON object, or anything else.
Cand(q, a) == [t |-> "dict", question |-> q, answer |-> a]
NonDict == [t |-> "other", question |-> JMissing, answer |-> JMissing]

\* A validated pair, as appended to valid_qa_pairs.
Pair(q, a) == [question |-> q, answer |-> a]

\* qa.get(key, ""): the default only when the key is missing
GetOrEmpty(v) == IF v.t = "missing" THEN JStr(<<>>) ELSE v

\* .strip() exists on a str only: None.strip() and (5).strip() raise
StripRaises(v) == GetOrEmpty(v).t # "str"

min_question_len == 5
min_answer_len == 3

\* The extraction validator's list of generic answers
ChunkerPlaceholders ==
    { <<"i","t">>, <<"t","h","i","s">>, <<"t","h","a","t">>,
      <<"s","o","m","e","t","h","i","n","g">>,
      <<"u","n","k","n","o","w","n">>, <<"n","/","a">> }

\* The placeholder list of the filter in process_text_file_to_flashcards
FlashcardPlaceholders ==
    { <<"i","t">>, <<"t","h","i","s">>, <<"t","h","a","t">>,
      <<"s","o","m","e","t","h","i","n","g">>,
      <<"u","n","k","n","o","w","n">>, <<"n","/","a">>,
      <<"n","o","n","e">> }

(***************************************************************************)
(* The validation of one candidate in extract_qa_pairs_batch:              *)
(*   "accept" with the stripped pair, "reject" (counted), or "raise"       *)
(*   (AttributeError out of .strip(), which leaves the loop).              *)
(***************************************************************************)
ValidateCandidate(qa) ==
    IF qa.t # "dict" THEN [outcome |-> "reject", pair |-> Pair(<<>>, <<>>)]
    ELSE IF StripRaises(qa.question) \/ StripRaises(qa.answer)
         THEN [outcome |-> "raise", pair |-> Pair(<<>>, <<>>)]
    ELSE LET question == Strip(GetOrEmpty(qa.question).s)
             answer == Strip(GetOrEmpty(qa.answer).s)
         IN  IF question = <<>> THEN [outcome |-> "reject", pair |-> Pair(<<>>, <<>>)]
             ELSE IF Len(question) < min_question_len
                  THEN [outcome |-> "reject", pair |-> Pair(<<>>, <<>>)]
             ELSE IF answer = <<>> THEN [outcome |-> "reject", pair |-> Pair(<<>>, <<>>)]
             ELSE IF Len(answer) < min_answer_len
                  THEN [outcome |-> "reject", pair |-> Pair(<<>>, <<>>)]
             ELSE IF Lower(answer) \in ChunkerPlaceholders
                  THEN [outcome |-> "reject", pair |-> Pair(<<>>, <<>>)]
             ELSE [outcome |-> "accept", pair |-> Pair(question, answer)]

(***************************************************************************)
(* The candidates the validator is tried on                                *)
(***************************************************************************)
QuestionValues ==
    { JMissing, JNull, JNum,
      JStr(<<>>), JStr(<<" ", " ">>),
      JStr(<<"H","i","?">>),
      JStr(<<"W","h","o","?">>),
      JStr(<<"W","h","a","t","?">>),
      JStr(<<" ","W","h","y","?"," ">>),
      JStr(<<" ","W","h","a","t","?","\n">>),
      JStr(<<"W","h","a","t"," ","i","s"," ","X","?">>) }

AnswerValues ==
    { JMissing, JNull, JNum,
      JStr(<<>>), JStr(<<"\n">>),
      JStr(<<"X">>), JStr(<<"n","o">>),
      JStr(<<"i","t">>), JStr(<<"I","t">>),
      JStr(<<"Y","e","s">>), JStr(<<" ","o","k"," ">>),
      JStr(<<"t","h","i","s">>), JStr(<<"T","H","A","T">>),
      JStr(<<"S","o","m","e","t","h","i","n","g">>),
      JStr(<<"u","n","k","n","o","w","n">>),
      JStr(<<"N","/","A">>), JStr(<<" ","n","/","a"," ">>),
      JStr(<<"n","o","n","e">>), JStr(<<"N","o","n","e">>),
      JStr(<<"n","o","n","e","s">>),
      JStr(<<"X"," ","i","s"," ","Y",".">>) }

Candidates ==
    {NonDict} \cup { Cand(q, a) : q \in QuestionValues, a \in AnswerValues }

NotValidated == [outcome |-> "pending", pair |-> Pair(<<>>, <<>>)]


(***************************************************************************)
(* Texts.  A text is a sequence of items <<id, length>>: a segment is one  *)
(* item, and the separator "\n\n" that a merge puts between two texts is   *)
(* an item of length 2.  len(text) is the sum of the lengths.              *)
(***************************************************************************)
Sep == <<0, 2>>
Segment(id, n) == << <<id, n>> >>

RECURSIVE TextLen(_)
TextLen(text) == IF text = <<>> THEN 0 ELSE Head(text)[2] + TextLen(Tail(text))

\* _cache_key: the md5 digest of the text (distinct texts, distinct digests)
CacheKey(text) == <<"md5", text>>

(***************************************************************************)
(* Maps (Python dicts) as functions                                        *)
(***************************************************************************)
EmptyMap == [k \in {} |-> 0]
Put(f, k, v) == [x \in DOMAIN f \cup {k} |-> IF x = k THEN v ELSE f[x]]
GetOr(f, k, d) == IF k \in DOMAIN f THEN f[k] ELSE d

\* the None placeholder of results; list identities are 1, 2, ...
None == 0

\* allocate the lists `vals' after the lists of `heap'
Alloc(heap, vals) == heap \o vals

(***************************************************************************)
(* The model's answer to one extraction prompt, by what the code makes of  *)
(* it: invoke raised; the content is empty or shorter than 10 characters;  *)
(* it holds no JSON object; it does not parse even after both repairs; it  *)
(* parses to something that is no object with a "segments" key; or it      *)
(* parses to an object whose "segments" is the list `segments'.            *)
(***************************************************************************)
Response(kind, segs) == [kind |-> kind, segments |-> segs]
NoResponse == Response("none", <<>>)

\* one element of "segments": kind "record" is a JSON object, "other" is not;
\* segment_id -1 stands for a missing or null id; iterable FALSE for a
\* qa_pairs value a for loop cannot iterate (null, a number)
SegRecord(id, cands) ==
    [kind |-> "record", segment_id |-> id, qa_pairs |-> cands, iterable |-> TRUE]

(***************************************************************************)
(* extract_qa_pairs_batch, lines 226-280: the validation loop over the     *)
(* candidates of one record                                                *)
(***************************************************************************)
RECURSIVE ValidateList(_)
ValidateList(qa_pairs) ==
    IF qa_pairs = <<>> THEN [raised |-> FALSE, valid |-> <<>>, rejected |-> 0]
    ELSE LET r == ValidateCandidate(Head(qa_pairs))
         IN  IF r.outcome = "raise"
             THEN [raised |-> TRUE, valid |-> <<>>, rejected |-> 0]
             ELSE LET rest == ValidateList(Tail(qa_pairs))
                  IN  IF rest.raised THEN [raised |-> TRUE, valid |-> <<>>, rejected |-> 0]
                      ELSE [raised |-> FALSE,
                            valid |-> (IF r.outcome = "accept" THEN <<r.pair>> ELSE <<>>)
                                      \o rest.valid,
                            rejected |-> (IF r.outcome = "reject" THEN 1 ELSE 0)
                                         + rest.rejected]

(***************************************************************************)
(* lines 212-290: the loop over result["segments"], building               *)
(* qa_pairs_by_segment and total_rejected; raised when an exception left   *)
(* the loop                                                                *)
(***************************************************************************)
RECURSIVE ProcessSegments(_, _)
ProcessSegments(segs, acc) ==
    IF segs = <<>> \/ acc.raised THEN acc
    ELSE LET seg == Head(segs)
         IN  IF seg.kind # "record" \/ seg.segment_id = -1
             THEN ProcessSegments(Tail(segs), acc)
             ELSE IF ~seg.iterable
                  THEN [acc EXCEPT !.raised = TRUE]
             ELSE LET v == ValidateList(seg.qa_pairs)
                  IN  IF v.raised THEN [acc EXCEPT !.raised = TRUE]
                      ELSE ProcessSegments(Tail(segs),
                             [raised |-> FALSE,
                              by_segment |-> IF v.valid # <<>>
                                             THEN Put(acc.by_segment, seg.segment_id, v.valid)
                                             ELSE acc.by_segment,
                              rejected |-> acc.rejected + v.rejected])

NoSegments == [raised |-> FALSE, by_segment |-> EmptyMap, rejected |-> 0]

(***************************************************************************)
(* lines 82-95: the cache check.  Indices are those of Python plus one.    *)
(***************************************************************************)
IsCached(text, cache) == CacheKey(text) \in DOMAIN cache

\* a slip: the cache not consulted, every text sent to the model
EveryIndex(texts, cache) == [i \in 1..Len(texts) |-> i]

UncachedIndices(texts, cache) ==
    SelectSeq([i \in 1..Len(texts) |-> i], LAMBDA i : ~IsCached(texts[i], cache))

InitialResults(texts, cache) ==
    [i \in 1..Len(texts) |->
        IF IsCached(texts[i], cache) THEN cache[CacheKey(texts[i])] ELSE None]

\* lines 100-103: the segments of the prompt, SEGMENT 0, SEGMENT 1, ...
PromptTexts(texts, unc) == [j \in 1..Len(unc) |-> texts[unc[j]]]

\* everything the code knows when it calls the model
BatchBegin(texts, cache) ==
    LET unc == UncachedIndices(texts, cache)
    IN  [texts |-> texts,
         results |-> InitialResults(texts, cache),
         uncached_indices |-> unc,
         uncached_texts |-> PromptTexts(texts, unc)]

(***************************************************************************)
(* `for idx in uncached_indices: results[idx] = []': a fresh empty list    *)
(* for every uncached index, nothing cached (lines 150, 174, 200, 207 and  *)
(* the handler at 316)                                                     *)
(***************************************************************************)
\* a slip: `results = [[] for _ in texts]' in the handler, the cached
\* indices emptied with the others
FailResultsAll(results, unc, heap) ==
    [i \in 1..Len(results) |->
        IF \E j \in 1..Len(unc) : unc[j] = i
        THEN Len(heap) + (CHOOSE j \in 1..Len(unc) : unc[j] = i)
        ELSE Len(heap) + 1]

FailResults(results, unc, heap) ==
    [i \in 1..Len(results) |->
        IF \E j \in 1..Len(unc) : unc[j] = i
        THEN Len(heap) + (CHOOSE j \in 1..Len(unc) : unc[j] = i)
        ELSE results[i]]

(***************************************************************************)
(* lines 297-303: results[text_idx] = qa_pairs_by_segment.get(i, []) and   *)
(* the same list object stored in the cache                                *)
(***************************************************************************)
\* a slip: the records looked up by numbers from 1
FilledListsFromOne(unc, by_segment) ==
    [j \in 1..Len(unc) |-> GetOr(by_segment, j, <<>>)]

FilledLists(unc, by_segment) ==
    [j \in 1..Len(unc) |-> GetOr(by_segment, j - 1, <<>>)]

\* a slip: record j put at index j of the input, not at uncached_indices[j]
FillResultsByPosition(results, unc, heap) ==
    [i \in 1..Len(results) |->
        IF i <= Len(unc) THEN Len(heap) + i ELSE results[i]]

FillResults(results, unc, heap) ==
    [i \in 1..Len(results) |->
        IF \E j \in 1..Len(unc) : unc[j] = i
        THEN Len(heap) + (CHOOSE j \in 1..Len(unc) : unc[j] = i)
        ELSE results[i]]

\* a slip: the cache store left out of the loop, run for the first text only
StoreOnlyFirst(cache, uncached_texts, j, base) ==
    IF uncached_texts = <<>> THEN cache
    ELSE Put(cache, CacheKey(uncached_texts[1]), base + 1)

RECURSIVE StoreResults(_, _, _, _)
StoreResults(cache, uncached_texts, j, base) ==
    IF j > Len(uncached_texts) THEN cache
    ELSE StoreResults(Put(cache, CacheKey(uncached_texts[j]), base + j),
                      uncached_texts, j + 1, base)

(***************************************************************************)
(* lines 141-318: from the model's answer to the return                    *)
(***************************************************************************)
\* a slip: the empty results of a failed batch stored like the filled ones
BatchFailStored(b, path, cache, heap) ==
    [results |-> FailResults(b.results, b.uncached_indices, heap),
     cache |-> StoreResults(cache, b.uncached_texts, 1, Len(heap)),
     heap |-> Alloc(heap, [j \in 1..Len(b.uncached_indices) |-> <<>>]),
     path |-> path, rejected |-> 0, invoked |-> TRUE]

BatchFail(b, path, cache, heap) ==
    [results |-> FailResults(b.results, b.uncached_indices, heap),
     cache |-> cache,
     heap |-> Alloc(heap, [j \in 1..Len(b.uncached_indices) |-> <<>>]),
     path |-> path, rejected |-> 0, invoked |-> TRUE]

BatchEnd(b, resp, cache, heap) ==
    IF resp.kind = "raise" THEN BatchFail(b, "exception", cache, heap)
    ELSE IF resp.kind = "short" THEN BatchFail(b, "short", cache, heap)
    ELSE IF resp.kind = "nojson" THEN BatchFail(b, "nojson", cache, heap)
    ELSE IF resp.kind = "unparseable" THEN BatchFail(b, "unparseable", cache, heap)
    ELSE IF resp.kind = "badstructure" THEN BatchFail(b, "badstructure", cache, heap)
    ELSE LET p == ProcessSegments(resp.segments, NoSegments)
         IN  IF p.raised THEN BatchFail(b, "exception", cache, heap)
             ELSE [results |-> FillResults(b.results, b.uncached_indices, heap),
                   cache |-> StoreResults(cache, b.uncached_texts, 1, Len(heap)),
                   heap |-> Alloc(heap, FilledLists(b.uncached_indices, p.by_segment)),
                   path |-> "filled", rejected |-> p.rejected, invoked |-> TRUE]

\* extract_qa_pairs_batch as one call on one thread
ExtractBatch(texts, resp, cache, heap) ==
    LET b == BatchBegin(texts, cache)
    IN  IF texts = <<>>
        THEN [results |-> <<>>, cache |-> cache, heap |-> heap,
              path |-> "empty", rejected |-> 0, invoked |-> FALSE]
        ELSE IF b.uncached_texts = <<>>
        THEN [results |-> b.results, cache |-> cache, heap |-> heap,
              path |-> "cached", rejected |-> 0, invoked |-> FALSE]
        ELSE BatchEnd(b, resp, cache, heap)

\* __init__: both caches empty
ChunkerInit ==
    /\ qa_cache = EmptyMap
    /\ merge_cache = EmptyMap
    /\ lists = <<>>

NoRecheck == [task |-> 0, values |-> <<>>, invoked |-> FALSE]

NoOracle == [extract |-> "none", merge |-> "none"]
NoEarlier == [mode |-> "none", out |-> <<>>]

\* no comparison of two calls under way
ModesIdle ==
    /\ oracle = NoOracle
    /\ earlier = NoEarlier

\* nothing outside the chunker under way
NoText == <<>>

\* the bytes of a file: whether they decode as UTF-8, and to what
Bytes(decodes, t) == [decodes |-> decodes, text |-> t]
NoBytes == Bytes(TRUE, <<>>)

\* process_text_file_to_flashcards: where it stands, the error it raised,
\* whether embed_and_store_flashcards was invoked and with what
Upload(at, error, invoked, flashcards) ==
    [pc |-> at, error |-> error, invoked |-> invoked, flashcards |-> flashcards]
NoUpload == Upload("none", "none", FALSE, <<>>)

UploadIdle ==
    /\ file_content = NoBytes
    /\ upload = NoUpload

\* search_flashcards (chat.py): where the call stands, the job handed to
\* the executor and the cards it found, the seconds waited, the threads of
\* the executor busy with other jobs, and what the call returned or raised
NoSearch ==
    [pc |-> "none", job |-> "none", cards |-> <<>>, waited |-> 0, busy |-> 0,
     out |-> <<>>, raised |-> FALSE, how |-> "none"]

\* the text of a response: document d cut after its first `kept' characters
\* and wrapped in fence
Reply(d, kept, fence) == [document |-> d, kept |-> kept, fence |-> fence]
NoReply == Reply(<<>>, 0, "none")
\* nothing repaired and nothing recovered yet
NotRecovered ==
    [soft |-> [done |-> FALSE, text |-> <<>>],
     full |-> [done |-> FALSE,
               outcome |-> [kind |-> "none", result |-> [t |-> "literal", v |-> <<>>]]]]

RecoverIdle ==
    /\ reply = NoReply
    /\ recovered = NotRecovered

\* a StudySessionState, lines 22-36 of chat.py, without user_id
StudySessionState(messages, study_topic, retrieved_cards, asked_card_indices, current_card, user_answer, score, session_scores, session_complete, current_step, needs_user_input) ==
    [messages |-> messages, study_topic |-> study_topic,
     retrieved_cards |-> retrieved_cards,
     asked_card_indices |-> asked_card_indices, current_card |-> current_card,
     user_answer |-> user_answer, score |-> score,
     session_scores |-> session_scores, session_complete |-> session_complete,
     current_step |-> current_step, needs_user_input |-> needs_user_input]

\* None where a string may stand: study_topic, user_answer
NoString == "<None>"

\* the state study_chat creates for a new session, lines 55-68 of
\* routes/chat.py; a card is its id, a positive number, and None is no card
NewSessionState ==
    StudySessionState(<<>>, NoString, <<>>, <<>>, None, NoString, None, <<>>,
                      FALSE, "start", FALSE)

\* a message of the conversation: its class, what its content says and the
\* two numbers its content shows, 0 where it shows none
Message(type, content, number, total) ==
    [type |-> type, content |-> content, number |-> number, total |-> total]
AIMessage(content, number, total) == Message("ai", content, number, total)
HumanMessage(content) == Message("human", content, 0, 0)

\* what study_chat returned, or that it raised
ChatResponse(response, session_complete, score, total_questions, questions_answered) ==
    [response |-> response, session_complete |-> session_complete, score |-> score,
     total_questions |-> total_questions, questions_answered |-> questions_answered]
NoChatResponse == ChatResponse(AIMessage("none", 0, 0), FALSE, None, 0, 0)

\* no request made yet: user_states holds nothing for the user, no graph
\* invocation under way
NoStudy ==
    [requests |-> 0, stored |-> FALSE, state |-> NewSessionState, at |-> "idle",
     ran |-> <<>>, response |-> NoChatResponse]

StudyIdle == study = NoStudy

OuterIdle ==
    /\ text_content = NoText
    /\ UploadIdle
    /\ search = NoSearch
    /\ RecoverIdle
    /\ StudyIdle

\* no call of chunk_segments under way
PipeIdle ==
    /\ pc = "idle"
    /\ mode = "sync"
    /\ segments = <<>>
    /\ tasks = <<>>
    /\ chunks = <<>>
    /\ final_chunks = <<>>
    /\ mtasks = <<>>
    /\ recheck = NoRecheck

(***************************************************************************)
(* __init__, lines 16-22                                                   *)
(***************************************************************************)
min_chunk_size == 50
max_chunk_size == 1000
batch_size == 8
skip_merge_threshold == 10
max_workers == 3

(***************************************************************************)
(* Chunks.  A chunk is a Python dict, an object of the heap `chunks'; its  *)
(* qa_pairs is the identity of a list of `lists'.  Absent stands for a key *)
(* the dict does not have.                                                 *)
(***************************************************************************)
Absent == "<absent>"

\* lines 625-631
NewChunk(segment, qa) ==
    [text |-> segment, qa_pairs |-> qa, char_count |-> TextLen(segment),
     merge_reason |-> Absent, split_reason |-> Absent]

\* dict == dict: the same keys with equal values, lists compared by content
ChunkEq(a, b, cs, heap) ==
    \/ a = b
    \/ /\ cs[a].text = cs[b].text
       /\ heap[cs[a].qa_pairs] = heap[cs[b].qa_pairs]
       /\ cs[a].char_count = cs[b].char_count
       /\ cs[a].merge_reason = cs[b].merge_reason
       /\ cs[a].split_reason = cs[b].split_reason

(***************************************************************************)
(* should_merge_chunks_batch, lines 433-547                                *)
(***************************************************************************)
Decision(m, reason) == [should_merge |-> m, reason |-> reason]
NoDecision == Decision(FALSE, "<None>")

\* the model's answer to a merge prompt, by what the code makes of it:
\* invoke raised or json.loads raised ("raise", "unparseable"), the object
\* has no "comparisons" key, or it holds the list `comparisons' of
\* [comparison_id, should_merge, reason]
MergeResponse(kind, comparisons) == [kind |-> kind, comparisons |-> comparisons]
NoMergeResponse == MergeResponse("none", <<>>)
Comparison(id, m, reason) == [comparison_id |-> id, should_merge |-> m, reason |-> reason]

\* lines 460-461: the questions of the first 3 pairs of a chunk
FirstQuestions(c, cs, heap) ==
    LET qa == heap[cs[c].qa_pairs]
    IN  [k \in 1..(IF Len(qa) < 3 THEN Len(qa) ELSE 3) |-> qa[k].question]

\* lines 462-464
MergeKey(pair, cs, heap) ==
    <<"md5", FirstQuestions(pair[1], cs, heap), FirstQuestions(pair[2], cs, heap)>>

\* lines 449-457: the pairs settled without cache or model
IsEmptyPair(pair, cs, heap) ==
    heap[cs[pair[1]].qa_pairs] = <<>> \/ heap[cs[pair[2]].qa_pairs] = <<>>

IsTooLarge(pair, cs) ==
    TextLen(cs[pair[1]].text) + TextLen(cs[pair[2]].text) > max_chunk_size

\* a slip: the cache looked up before the size is checked
MergeSourceCacheFirst(pair, mcache, cs, heap) ==
    IF IsEmptyPair(pair, cs, heap) THEN "empty"
    ELSE IF MergeKey(pair, cs, heap) \in DOMAIN mcache THEN "cached"
    ELSE IF IsTooLarge(pair, cs) THEN "large"
    ELSE "model"

\* how pair i of the batch is settled before the model is called
MergeSource(pair, mcache, cs, heap) ==
    IF IsEmptyPair(pair, cs, heap) THEN "empty"
    ELSE IF IsTooLarge(pair, cs) THEN "large"
    ELSE IF MergeKey(pair, cs, heap) \in DOMAIN mcache THEN "cached"
    ELSE "model"

\* lines 444-472
MergeBegin(pairs, mcache, cs, heap) ==
    LET src == [i \in 1..Len(pairs) |-> MergeSource(pairs[i], mcache, cs, heap)]
        unc == SelectSeq([i \in 1..Len(pairs) |-> i], LAMBDA i : src[i] = "model")
    IN  [pairs |-> pairs,
         source |-> src,
         results |-> [i \in 1..Len(pairs) |->
                        CASE src[i] = "empty" ->
                               Decision(FALSE, "One or both chunks are empty")
                          [] src[i] = "large" ->
                               Decision(FALSE, "Combined size would be too large")
                          [] src[i] = "cached" -> mcache[MergeKey(pairs[i], cs, heap)]
                          [] OTHER -> NoDecision],
         uncached_indices |-> unc,
         keys |-> [j \in 1..Len(unc) |-> MergeKey(pairs[unc[j]], cs, heap)]]

\* lines 524-530: decisions_by_id
RECURSIVE DecisionsById(_, _)
DecisionsById(comparisons, acc) ==
    IF comparisons = <<>> THEN acc
    ELSE LET comp == Head(comparisons)
         IN  DecisionsById(Tail(comparisons),
                 IF comp.comparison_id = -1 THEN acc
                 ELSE Put(acc, comp.comparison_id,
                          Decision(comp.should_merge, comp.reason)))

\* a slip: a pair the answer leaves out taken as a merge
AnsweredDecisionLenient(resp, j) ==
    IF resp.kind \in {"raise", "unparseable"}
    THEN Decision(FALSE, "Error analyzing chunks")
    ELSE IF resp.kind = "nocomparisons" THEN Decision(FALSE, "Parse error")
    ELSE GetOr(DecisionsById(resp.comparisons, EmptyMap), j - 1,
               Decision(TRUE, "Unknown"))

\* the decision of uncached pair j (from 1) after the answer
AnsweredDecision(resp, j) ==
    IF resp.kind \in {"raise", "unparseable"}
    THEN Decision(FALSE, "Error analyzing chunks")
    ELSE IF resp.kind = "nocomparisons" THEN Decision(FALSE, "Parse error")
    ELSE GetOr(DecisionsById(resp.comparisons, EmptyMap), j - 1,
               Decision(FALSE, "Unknown"))

\* a slip: the decisions of a failed answer not cached
StoreParsedDecisions(mcache, keys, resp, j) ==
    IF resp.kind # "parsed" THEN mcache
    ELSE [k \in DOMAIN mcache \cup {keys[i] : i \in 1..Len(keys)} |->
            IF \E i \in 1..Len(keys) : keys[i] = k
            THEN AnsweredDecision(resp, CHOOSE i \in 1..Len(keys) :
                                          keys[i] = k /\ \A h \in (i + 1)..Len(keys) : keys[h] # k)
            ELSE mcache[k]]

RECURSIVE StoreDecisions(_, _, _, _)
StoreDecisions(mcache, keys, resp, j) ==
    IF j > Len(keys) THEN mcache
    ELSE StoreDecisions(Put(mcache, keys[j], AnsweredDecision(resp, j)),
                        keys, resp, j + 1)

\* lines 497-547: every uncached pair gets its decision, which is cached
MergeEnd(b, resp, mcache) ==
    [results |-> [i \in 1..Len(b.results) |->
                    IF \E j \in 1..Len(b.uncached_indices) : b.uncached_indices[j] = i
                    THEN AnsweredDecision(resp,
                           CHOOSE j \in 1..Len(b.uncached_indices) :
                               b.uncached_indices[j] = i)
                    ELSE b.results[i]],
     cache |-> StoreDecisions(mcache, b.keys, resp, 1)]

\* should_merge_chunks_batch as one call on one thread
ShouldMergeBatch(pairs, resp, mcache, cs, heap) ==
    LET b == MergeBegin(pairs, mcache, cs, heap)
    IN  IF b.uncached_indices = <<>>
        THEN [results |-> b.results, cache |-> mcache]
        ELSE MergeEnd(b, resp, mcache)

(***************************************************************************)
(* chunk_segments, lines 660-675 (and 686-700, 796-808): one decision      *)
(* applied to the chunks.  st holds chunks, lists and final_chunks.        *)
(***************************************************************************)
Last(seq) == seq[Len(seq)]

\* a slip: the text of the current chunk put before the tail's
MergeIntoFront(st, tail, curr, reason) ==
    [chunks |-> [st.chunks EXCEPT
                   ![tail].text = st.chunks[curr].text \o <<Sep>> \o @,
                   ![tail].char_count =
                       TextLen(st.chunks[tail].text \o <<Sep>> \o st.chunks[curr].text),
                   ![tail].merge_reason = reason],
     lists |-> [st.lists EXCEPT
                   ![st.chunks[tail].qa_pairs] = @ \o st.lists[st.chunks[curr].qa_pairs]],
     final |-> st.final]

\* a slip: char_count left as it was when the texts are joined
MergeIntoStale(st, tail, curr, reason) ==
    [chunks |-> [st.chunks EXCEPT
                   ![tail].text = @ \o <<Sep>> \o st.chunks[curr].text,
                   ![tail].merge_reason = reason],
     lists |-> [st.lists EXCEPT
                   ![st.chunks[tail].qa_pairs] = @ \o st.lists[st.chunks[curr].qa_pairs]],
     final |-> st.final]

MergeInto(st, tail, curr, reason) ==
    [chunks |-> [st.chunks EXCEPT
                   ![tail].text = @ \o <<Sep>> \o st.chunks[curr].text,
                   ![tail].char_count =
                       TextLen(st.chunks[tail].text \o <<Sep>> \o st.chunks[curr].text),
                   ![tail].merge_reason = reason],
     lists |-> [st.lists EXCEPT
                   ![st.chunks[tail].qa_pairs] = @ \o st.lists[st.chunks[curr].qa_pairs]],
     final |-> st.final]

KeepSeparate(st, curr, reason) ==
    [chunks |-> [st.chunks EXCEPT ![curr].split_reason = reason],
     lists |-> st.lists,
     final |-> Append(st.final, curr)]

\* a slip: the comparison with the pair's last_chunk left out
AlwaysTail(st, last_chunk) == TRUE

StillTail(st, last_chunk) ==
    ChunkEq(Last(st.final), last_chunk, st.chunks, st.lists)

ApplyDecision(st, pair, dec) ==
    IF dec.should_merge /\ StillTail(st, pair[1])
    THEN MergeInto(st, Last(st.final), pair[2], dec.reason)
    ELSE KeepSeparate(st, pair[2], dec.reason)

RECURSIVE ApplyDecisions(_, _, _)
ApplyDecisions(st, pairs, decisions) ==
    IF pairs = <<>> THEN st
    ELSE ApplyDecisions(ApplyDecision(st, Head(pairs), Head(decisions)),
                        Tail(pairs), Tail(decisions))

(***************************************************************************)
(* The answers the model is made to give.  For a prompt of n segments the  *)
(* well-behaved answer holds one record per segment, numbered from 0, with *)
(* one good pair about the segment's text; the other answers change it at  *)
(* one place, or fail as a whole.                                          *)
(***************************************************************************)
Letters ==
    <<"a","b","c","d","e","f","g","h","i","j","k","l","m","n","o","p",
      "q","r","s","t","u","v","w","x","y","z","0","1","2","3","4","5",
      "6","7","8","9","A","B","C","D","E","F","G","H","I","J","K","L">>
\* the first word of a text names it
FirstWord(t) == SelectSeq(t, LAMBDA item : item[1] > 0)[1][1]
IdChar(t) == Letters[FirstWord(t)]

\* the model pads its strings with white space; strip() removes it
QuestionFor(text) == <<" ","W","h","a","t"," ", IdChar(text), "?">>
AnswerFor(text) == <<"A","n","s"," ", IdChar(text), "\n">>
GoodCand(text) == Cand(JStr(QuestionFor(text)), JStr(AnswerFor(text)))
GoodPair(text) == Pair(Strip(QuestionFor(text)), Strip(AnswerFor(text)))

ShortQuestion(text) == Cand(JStr(<<"H","i","?">>), JStr(AnswerFor(text)))
NullQuestion(text) == Cand(JNull, JStr(AnswerFor(text)))
NumberAnswer(text) == Cand(JStr(QuestionFor(text)), JNum)
NoneAnswer(text) == Cand(JStr(QuestionFor(text)), JStr(<<"N","o","n","e">>))
ItAnswer(text) == Cand(JStr(QuestionFor(text)), JStr(<<" ","I","t">>))

\* what the model may put in the qa_pairs of the record of one segment
CandidateLists(text) ==
    { <<>>,
      <<ShortQuestion(text), GoodCand(text)>>,
      <<GoodCand(text), NonDict>>,
      <<ItAnswer(text)>>,
      <<NoneAnswer(text)>>,
      <<NullQuestion(text), GoodCand(text)>>,
      <<GoodCand(text), NumberAnswer(text)>> }

GoodSegments(prompt) ==
    [j \in 1..Len(prompt) |-> SegRecord(j - 1, <<GoodCand(prompt[j])>>)]

Without(seq, k) == SubSeq(seq, 1, k - 1) \o SubSeq(seq, k + 1, Len(seq))
Reversed(seq) == [j \in 1..Len(seq) |-> seq[Len(seq) + 1 - j]]

ChangedSegments(prompt) ==
    LET good == GoodSegments(prompt)
        n == Len(prompt)
    IN  { Without(good, k) : k \in 1..n }
        \cup UNION { { [good EXCEPT ![k].qa_pairs = c] :
                          c \in CandidateLists(prompt[k]) } : k \in 1..n }
        \cup { [good EXCEPT ![k].kind = "other"] : k \in 1..n }
        \cup { [good EXCEPT ![k].segment_id = -1] : k \in 1..n }
        \cup { [good EXCEPT ![k].iterable = FALSE] : k \in 1..n }
        \* the records in another order, numbered from 1, or with a number
        \* no segment has
        \cup { Reversed(good),
               [j \in 1..n |-> [good[j] EXCEPT !.segment_id = j]],
               [good EXCEPT ![n].segment_id = n + 7] }

FailedResponses ==
    { Response(k, <<>>) :
        k \in {"raise", "short", "nojson", "unparseable", "badstructure"} }

ExtractResponses(prompt) ==
    FailedResponses
    \cup { Response("parsed", segs) :
             segs \in {GoodSegments(prompt)} \cup ChangedSegments(prompt) }

(***************************************************************************)
(* SpecExtract: direct calls of extract_qa_pairs_batch and clear_cache on  *)
(* one chunker                                                             *)
(***************************************************************************)
MaxCalls == 2

TextA == Segment(1, 60)
TextB == Segment(2, 75)

\* no text; one; two; three of which two are the same text
ExtractInputs ==
    { <<>>, <<TextA>>, <<TextA, TextB>>, <<TextB, TextA, TextA>> }

\* the pairs (not the identities) of a sequence of lists
Values(ids, heap) == [i \in 1..Len(ids) |-> IF ids[i] = None THEN <<>> ELSE heap[ids[i]]]

NoCall ==
    [texts |-> <<>>, resp |-> NoResponse, results |-> <<>>, values |-> <<>>,
     uncached_indices |-> <<>>, uncached_texts |-> <<>>,
     path |-> "none", rejected |-> 0, invoked |-> FALSE]

ExtIdle ==
    /\ ncalls = 0
    /\ xlast = NoCall
    /\ xpre = [cache |-> EmptyMap, lists |-> <<>>]

ExtInit ==
    /\ vcand = NonDict
    /\ vout = NotValidated
    /\ ChunkerInit
    /\ ExtIdle
    /\ PipeIdle
    /\ ModesIdle
    /\ OuterIdle

\* one call of extract_qa_pairs_batch(texts), the model answering resp
DoExtract(texts, resp) ==
    LET b == BatchBegin(texts, qa_cache)
        r == ExtractBatch(texts, resp, qa_cache, lists)
    IN  /\ qa_cache' = r.cache
        /\ lists' = r.heap
        /\ UNCHANGED merge_cache
        /\ xlast' = [texts |-> texts,
                     resp |-> IF r.invoked THEN resp ELSE NoResponse,
                     results |-> r.results,
                     values |-> Values(r.results, r.heap),
                     uncached_indices |-> b.uncached_indices,
                     uncached_texts |-> b.uncached_texts,
                     path |-> r.path, rejected |-> r.rejected,
                     invoked |-> r.invoked]
        /\ xpre' = [cache |-> qa_cache, lists |-> lists]

CallExtract ==
    /\ ncalls < MaxCalls
    /\ \E texts \in ExtractInputs :
         LET b == BatchBegin(texts, qa_cache)
         IN  IF b.uncached_texts = <<>>
             THEN DoExtract(texts, NoResponse)
             ELSE \E resp \in ExtractResponses(b.uncached_texts) :
                     DoExtract(texts, resp)
    /\ ncalls' = ncalls + 1
    /\ UNCHANGED <<valVars, modesVars, outerVars, pipeVars>>

\* clear_cache, lines 824-827
ClearCache ==
    /\ qa_cache # EmptyMap \/ merge_cache # EmptyMap
    /\ qa_cache' = EmptyMap
    /\ merge_cache' = EmptyMap
    /\ UNCHANGED <<lists, valVars, modesVars, outerVars, extVars, pipeVars>>

ExtNext == CallExtract \/ ClearCache

SpecExtract == ExtInit /\ [][ExtNext]_vars

(***************************************************************************)
(* SpecPipeline: one call of chunk_segments or chunk_segments_async on a   *)
(* new chunker, then a later extract_qa_pairs_batch with the texts of one  *)
(* of its batches.                                                         *)
(*                                                                         *)
(* In sync mode a batch is one step (the call runs on one thread).  In     *)
(* async mode each batch runs extract_qa_pairs_batch (or                   *)
(* should_merge_chunks_batch) on a thread of the executor: the cache check *)
(* and, after the model's answer, the fill and cache store are two steps,  *)
(* and the steps of up to max_workers batches interleave.                  *)
(***************************************************************************)
MaxSegs == 12

\* n segments with texts of their own, each of the given length
PlainDoc(n, len) == [i \in 1..n |-> Segment(i, len)]

\* the numbers of segments: around one batch and around
\* skip_merge_threshold, and the large documents
DocSizes == { n \in 0..MaxSegs : n \in {0, 1, 2, 9, 10} \/ n >= 12 }

\* the documents: plain ones of short or long segments; with the second
\* segment below min_chunk_size; with segment 9 repeating the text of
\* segment 1 (the first segment of the second batch, the first batch's first);
\* with segment 10 repeating the text of segment 9 (neighbours of one batch)
Documents ==
    UNION { { PlainDoc(n, len) : len \in {50, 200} } : n \in DocSizes }
    \cup { [PlainDoc(n, 50) EXCEPT ![2] = Segment(2, 49)] : n \in DocSizes \ {0, 1} }
    \cup { [PlainDoc(n, 50) EXCEPT ![9] = Segment(1, 50)] : n \in DocSizes \ {0, 1, 2} }
    \cup { [PlainDoc(n, 50) EXCEPT ![10] = Segment(9, 50)] : n \in DocSizes \ (0..9) }

\* the answers of the model to an extraction prompt of the call
PipeResponses(prompt) ==
    LET good == GoodSegments(prompt)
        n == Len(prompt)
    IN  { Response("raise", <<>>), Response("unparseable", <<>>),
          Response("parsed", good),
          Response("parsed", Without(good, 1)),
          Response("parsed", Without(good, n)),
          Response("parsed", [good EXCEPT ![1].qa_pairs = <<NoneAnswer(prompt[1])>>]),
          Response("parsed",
                   [good EXCEPT ![n].qa_pairs = <<GoodCand(prompt[n]), NullQuestion(prompt[n])>>]) }

\* the answers of the model to a merge prompt of n comparisons
AllMerge(n) == [j \in 1..n |-> Comparison(j - 1, TRUE, "same topic")]
NoMerge(n) == [j \in 1..n |-> Comparison(j - 1, FALSE, "different topics")]

MergeResponses(n) ==
    { MergeResponse(k, <<>>) : k \in {"raise", "unparseable", "nocomparisons"} }
    \cup { MergeResponse("parsed", c) :
             c \in {AllMerge(n), NoMerge(n), Without(AllMerge(n), 1), Without(AllMerge(n), n)}
                   \cup { [AllMerge(n) EXCEPT ![k] = Comparison(k - 1, FALSE, "different topics")] :
                            k \in {1, 2, n} \cap (1..n) } }

(***************************************************************************)
(* A model that answers by rules (SpecModes): what it extracts depends on  *)
(* the text of the segment only, what it decides on the two groups of      *)
(* questions it is shown only.                                             *)
(***************************************************************************)
MaxBatches == 4

\* "skip2": no pair for the text of segment 2.  "single": merge when the
\* first group holds one question.
Oracles ==
    { [extract |-> e, merge |-> g] :
        e \in {"all", "skip2"}, g \in {"always", "never", "single"} }

OracleCandidates(text) ==
    IF oracle.extract = "skip2" /\ text[1][1] = 2 THEN <<>> ELSE <<GoodCand(text)>>

OracleExtract(prompt) ==
    Response("parsed",
             [j \in 1..Len(prompt) |-> SegRecord(j - 1, OracleCandidates(prompt[j]))])

OracleDecides(questions_a, questions_b) ==
    CASE oracle.merge = "always" -> TRUE
      [] oracle.merge = "never" -> FALSE
      [] OTHER -> Len(questions_a) = 1

OracleMerge(keys) ==
    MergeResponse("parsed",
        [j \in 1..Len(keys) |->
            Comparison(j - 1, OracleDecides(keys[j][2], keys[j][3]), "by rule")])

\* the documents of SpecModes: below and above skip_merge_threshold, short
\* and long segments, a repeated text, and enough segments for MaxBatches
\* extraction batches and as many merge batches
ModeDocuments ==
    { PlainDoc(2, 50), PlainDoc(10, 50), PlainDoc(12, 200),
      [PlainDoc(12, 50) EXCEPT ![9] = Segment(1, 50)],
      PlainDoc((MaxBatches - 1) * batch_size + 2, 50) }

\* the arguments of a call, and the answers of the model to an extraction
\* prompt and to the merge prompt of a batch
Inputs == IF oracle = NoOracle THEN Documents ELSE ModeDocuments

Answers(prompt) ==
    IF oracle = NoOracle THEN PipeResponses(prompt) ELSE {OracleExtract(prompt)}

MergeAnswers(b) ==
    IF oracle = NoOracle THEN MergeResponses(Len(b.uncached_indices))
    ELSE {OracleMerge(b.keys)}

(***************************************************************************)
(* The extraction batches                                                  *)
(***************************************************************************)
NewTask(texts) ==
    [state |-> "new", texts |-> texts, init |-> <<>>,
     uncached_indices |-> <<>>, uncached_texts |-> <<>>, pre |-> <<>>,
     resp |-> NoResponse, results |-> <<>>, values |-> <<>>, path |-> "none"]

\* a slip: no segment filtered out
AllSegments(segs) == segs

\* lines 602 and 714
ValidSegments(segs) == SelectSeq(segs, LAMBDA t : TextLen(t) >= min_chunk_size)

Min(a, b) == IF a < b THEN a ELSE b

\* lines 613-614 and 725-726: the batches of valid_segments
NumBatches(n, size) == (n + size - 1) \div size
Batch(seq, k, size) == SubSeq(seq, (k - 1) * size + 1, Min(k * size, Len(seq)))

\* the cache check of a batch, with what the claims need of the entry state
Begun(t, cache, heap) ==
    LET b == BatchBegin(t.texts, cache)
    IN  [t EXCEPT !.state = "running",
                  !.init = b.results,
                  !.uncached_indices = b.uncached_indices,
                  !.uncached_texts = b.uncached_texts,
                  !.pre = Values(b.results, heap)]

\* the return of a batch whose texts were all cached
ReturnedCached(t) ==
    [t EXCEPT !.state = "done", !.results = t.init, !.values = t.pre,
              !.path = "cached"]

\* the return of a batch after the model's answer
Returned(t, resp, r) ==
    [t EXCEPT !.state = "done", !.resp = resp, !.results = r.results,
              !.values = Values(r.results, r.heap), !.path = r.path]

AsBegin(t) ==
    [texts |-> t.texts, results |-> t.init,
     uncached_indices |-> t.uncached_indices, uncached_texts |-> t.uncached_texts]

RECURSIVE Flatten(_)
Flatten(seqs) == IF seqs = <<>> THEN <<>> ELSE Head(seqs) \o Flatten(Tail(seqs))

\* all_qa_pairs, lines 612-616 and 734-736
AllQaPairs == Flatten([k \in 1..Len(tasks) |-> tasks[k].results])
ValidSegs == ValidSegments(segments)

(***************************************************************************)
(* The merge batches                                                       *)
(***************************************************************************)
NewMergeTask(pairs) ==
    [state |-> "new", pairs |-> pairs, source |-> <<>>, init |-> <<>>,
     uncached_indices |-> <<>>, keys |-> <<>>, resp |-> NoMergeResponse,
     decisions |-> <<>>]

MergeBegun(t, b) ==
    [t EXCEPT !.state = "running", !.source = b.source, !.init = b.results,
              !.uncached_indices = b.uncached_indices, !.keys = b.keys]

MergeReturned(t, resp, decisions) ==
    [t EXCEPT !.state = "done", !.resp = resp, !.decisions = decisions]

AsMergeBegin(t) ==
    [pairs |-> t.pairs, source |-> t.source, results |-> t.init,
     uncached_indices |-> t.uncached_indices, keys |-> t.keys]

PipeInit ==
    /\ vcand = NonDict
    /\ vout = NotValidated
    /\ ChunkerInit
    /\ ExtIdle
    /\ PipeIdle
    /\ ModesIdle
    /\ OuterIdle

\* lines 598-609 and 710-721
Start ==
    /\ pc = "idle"
    /\ \E doc \in Inputs, m \in {"sync", "async"} :
         /\ segments' = doc
         /\ mode' = m
         /\ LET valid == ValidSegments(doc)
            IN  IF valid = <<>>
                THEN /\ pc' = "done"
                     /\ tasks' = <<>>
                ELSE /\ pc' = "extract"
                     /\ tasks' = [k \in 1..NumBatches(Len(valid), batch_size) |->
                                    NewTask(Batch(valid, k, batch_size))]
    /\ UNCHANGED <<chunks, final_chunks, mtasks, recheck, chunkerVars, valVars, modesVars, outerVars, extVars>>

\* lines 613-616: the next batch of the loop, extract_qa_pairs_batch as a whole
ExtractStep ==
    /\ pc = "extract"
    /\ mode = "sync"
    /\ \E k \in 1..Len(tasks) :
         /\ tasks[k].state = "new"
         /\ \A j \in 1..(k - 1) : tasks[j].state = "done"
         /\ LET t == Begun(tasks[k], qa_cache, lists)
            IN  IF t.uncached_texts = <<>>
                THEN /\ tasks' = [tasks EXCEPT ![k] = ReturnedCached(t)]
                     /\ UNCHANGED <<qa_cache, lists>>
                ELSE \E resp \in Answers(t.uncached_texts) :
                        LET r == BatchEnd(AsBegin(t), resp, qa_cache, lists)
                        IN  /\ tasks' = [tasks EXCEPT ![k] = Returned(t, resp, r)]
                            /\ qa_cache' = r.cache
                            /\ lists' = r.heap
    /\ UNCHANGED <<pc, mode, segments, chunks, final_chunks, mtasks, recheck,
                   merge_cache, valVars, modesVars, outerVars, extVars>>

Running(ts) == Cardinality({k \in 1..Len(ts) : ts[k].state = "running"})

\* a slip: a thread for every batch
WorkerAlwaysFree(ts, ms) == TRUE

\* line 22: the executor runs at most max_workers calls at a time
WorkerFree(ts, ms) == Running(ts) + Running(ms) < max_workers

\* lines 413-423 and 82-98: a thread of the executor takes a batch and
\* checks the cache
AsyncExtractBegin ==
    /\ pc = "extract"
    /\ mode = "async"
    /\ WorkerFree(tasks, mtasks)
    /\ \E k \in 1..Len(tasks) :
         /\ tasks[k].state = "new"
         /\ LET t == Begun(tasks[k], qa_cache, lists)
            IN  tasks' = [tasks EXCEPT ![k] =
                            IF t.uncached_texts = <<>> THEN ReturnedCached(t) ELSE t]
    /\ UNCHANGED <<pc, mode, segments, chunks, final_chunks, mtasks, recheck,
                   chunkerVars, valVars, modesVars, outerVars, extVars>>

\* lines 141-318 on that thread: the model answers, the batch returns
AsyncExtractEnd ==
    /\ pc = "extract"
    /\ mode = "async"
    /\ \E k \in 1..Len(tasks) :
         /\ tasks[k].state = "running"
         /\ \E resp \in Answers(tasks[k].uncached_texts) :
              LET r == BatchEnd(AsBegin(tasks[k]), resp, qa_cache, lists)
              IN  /\ tasks' = [tasks EXCEPT ![k] = Returned(tasks[k], resp, r)]
                  /\ qa_cache' = r.cache
                  /\ lists' = r.heap
    /\ UNCHANGED <<pc, mode, segments, chunks, final_chunks, mtasks, recheck,
                   merge_cache, valVars, modesVars, outerVars, extVars>>

\* lines 621-631 and 740-750: segment_chunks
NonEmptyIndices(ids, heap) ==
    SelectSeq([i \in 1..Len(ids) |-> i], LAMBDA i : heap[ids[i]] # <<>>)

SegmentChunks(valid, ids, heap) ==
    LET idx == NonEmptyIndices(ids, heap)
    IN  [c \in 1..Len(idx) |-> NewChunk(valid[idx[c]], ids[idx[c]])]

\* a slip: the threshold off by one
SkipMergeBelow(n) == n < skip_merge_threshold - 1

\* lines 637 and 756
SkipMerge(n) == n < skip_merge_threshold

\* lines 771-785: every pair is formed with final_chunks[-1], which stays
\* segment_chunks[0] while the pairs are formed
AsyncMergePairs(n) == [c \in 1..(n - 1) |-> <<1, c + 1>>]

\* a slip: the first batch to return awaited, not all
GatheredAny(ts) == \E k \in 1..Len(ts) : ts[k].state = "done"

\* lines 613-619 (the loop has ended) and 731 (gather has returned)
Gathered(ts) == \A k \in 1..Len(ts) : ts[k].state = "done"

\* lines 621-648 and 740-785, after the last batch (sync) or after gather
BuildChunks ==
    /\ pc = "extract"
    /\ Gathered(tasks)
    /\ LET cs == SegmentChunks(ValidSegs, AllQaPairs, lists)
           n == Len(cs)
       IN  /\ chunks' = cs
           /\ IF SkipMerge(n)
              THEN /\ final_chunks' = [c \in 1..n |-> c]
                   /\ mtasks' = <<>>
                   /\ pc' = "done"
              ELSE /\ final_chunks' = <<1>>
                   /\ pc' = "merge"
                   /\ mtasks' = IF mode = "sync" THEN <<>>
                                ELSE [k \in 1..NumBatches(n - 1, batch_size) |->
                                        NewMergeTask(Batch(AsyncMergePairs(n), k, batch_size))]
    /\ UNCHANGED <<mode, segments, tasks, recheck, chunkerVars, valVars, modesVars, outerVars, extVars>>

\* the chunks the sync loop has paired so far
Paired == 1 + Len(Flatten([k \in 1..Len(mtasks) |-> mtasks[k].pairs]))

\* lines 653-700: the next batch_size chunks (or the rest) paired with the
\* tail, should_merge_chunks_batch, and its decisions applied
MergeStep ==
    /\ pc = "merge"
    /\ mode = "sync"
    /\ LET n == Min(batch_size, Len(chunks) - Paired)
           pairs == [j \in 1..n |-> <<Last(final_chunks), Paired + j>>]
           b == MergeBegin(pairs, merge_cache, chunks, lists)
       IN  \E resp \in IF b.uncached_indices = <<>> THEN {NoMergeResponse}
                       ELSE MergeAnswers(b) :
              LET r == ShouldMergeBatch(pairs, resp, merge_cache, chunks, lists)
                  st == ApplyDecisions(
                          [chunks |-> chunks, lists |-> lists, final |-> final_chunks],
                          pairs, r.results)
              IN  /\ merge_cache' = r.cache
                  /\ chunks' = st.chunks
                  /\ lists' = st.lists
                  /\ final_chunks' = st.final
                  /\ mtasks' = Append(mtasks,
                                 MergeReturned(MergeBegun(NewMergeTask(pairs), b),
                                               resp, r.results))
                  /\ pc' = IF Paired + n = Len(chunks) THEN "done" ELSE "merge"
    /\ UNCHANGED <<mode, segments, tasks, recheck, qa_cache, valVars, modesVars, outerVars, extVars>>

\* lines 549-559 and 448-476: a thread takes a merge batch and checks the cache
AsyncMergeBegin ==
    /\ pc = "merge"
    /\ mode = "async"
    /\ WorkerFree(tasks, mtasks)
    /\ \E k \in 1..Len(mtasks) :
         /\ mtasks[k].state = "new"
         /\ LET b == MergeBegin(mtasks[k].pairs, merge_cache, chunks, lists)
                t == MergeBegun(mtasks[k], b)
            IN  mtasks' = [mtasks EXCEPT ![k] =
                             IF b.uncached_indices = <<>>
                             THEN MergeReturned(t, NoMergeResponse, b.results)
                             ELSE t]
    /\ UNCHANGED <<pc, mode, segments, tasks, chunks, final_chunks, recheck,
                   chunkerVars, valVars, modesVars, outerVars, extVars>>

\* lines 497-547 on that thread
AsyncMergeEnd ==
    /\ pc = "merge"
    /\ mode = "async"
    /\ \E k \in 1..Len(mtasks) :
         /\ mtasks[k].state = "running"
         /\ \E resp \in MergeAnswers(mtasks[k]) :
              LET r == MergeEnd(AsMergeBegin(mtasks[k]), resp, merge_cache)
              IN  /\ mtasks' = [mtasks EXCEPT ![k] = MergeReturned(mtasks[k], resp, r.results)]
                  /\ merge_cache' = r.cache
    /\ UNCHANGED <<pc, mode, segments, tasks, chunks, final_chunks, recheck,
                   qa_cache, lists, valVars, modesVars, outerVars, extVars>>

\* lines 788-812: after gather, the decisions of all batches applied in order
AsyncApply ==
    /\ pc = "merge"
    /\ mode = "async"
    /\ \A k \in 1..Len(mtasks) : mtasks[k].state = "done"
    /\ LET st == ApplyDecisions(
                   [chunks |-> chunks, lists |-> lists, final |-> final_chunks],
                   Flatten([k \in 1..Len(mtasks) |-> mtasks[k].pairs]),
                   Flatten([k \in 1..Len(mtasks) |-> mtasks[k].decisions]))
       IN  /\ chunks' = st.chunks
           /\ lists' = st.lists
           /\ final_chunks' = st.final
    /\ pc' = "done"
    /\ UNCHANGED <<mode, segments, tasks, mtasks, recheck, qa_cache, merge_cache,
                   valVars, modesVars, outerVars, extVars>>

\* after the call: extract_qa_pairs_batch again with the texts of batch k,
\* all of them in the cache
Recheck ==
    /\ pc = "done"
    /\ recheck.task = 0
    /\ \E k \in 1..Len(tasks) :
         /\ \A i \in 1..Len(tasks[k].texts) : IsCached(tasks[k].texts[i], qa_cache)
         /\ LET r == ExtractBatch(tasks[k].texts, NoResponse, qa_cache, lists)
            IN  /\ recheck' = [task |-> k, values |-> Values(r.results, r.heap),
                               invoked |-> r.invoked]
                /\ qa_cache' = r.cache
                /\ lists' = r.heap
    /\ UNCHANGED <<pc, mode, segments, tasks, chunks, final_chunks, mtasks,
                   merge_cache, valVars, modesVars, outerVars, extVars>>

PipeNext ==
    \/ Start
    \/ ExtractStep
    \/ AsyncExtractBegin
    \/ AsyncExtractEnd
    \/ BuildChunks
    \/ MergeStep
    \/ AsyncMergeBegin
    \/ AsyncMergeEnd
    \/ AsyncApply
    \/ Recheck

SpecPipeline == PipeInit /\ [][PipeNext]_vars

(***************************************************************************)
(* SpecModes: a call of chunk_segments or chunk_segments_async on a new    *)
(* chunker, then a call of chunk_segments_async with the same segments on  *)
(* another new chunker, the model answering both by the same rules.        *)
(***************************************************************************)
ModesInit ==
    /\ vcand = NonDict
    /\ vout = NotValidated
    /\ ChunkerInit
    /\ ExtIdle
    /\ PipeIdle
    /\ oracle \in Oracles
    /\ earlier = NoEarlier
    /\ OuterIdle

\* the first call has returned; AgenticChunker(model) again, lines 14-22,
\* and chunk_segments_async(segments), lines 710-721
CallAgain ==
    /\ pc = "done"
    /\ earlier = NoEarlier
    /\ earlier' = [mode |-> mode,
                   out |-> [c \in 1..Len(final_chunks) |->
                              [chunks[final_chunks[c]] EXCEPT !.qa_pairs = lists[@]]]]
    /\ qa_cache' = EmptyMap
    /\ merge_cache' = EmptyMap
    /\ lists' = <<>>
    /\ mode' = "async"
    /\ LET valid == ValidSegments(segments)
       IN  IF valid = <<>>
           THEN /\ pc' = "done"
                /\ tasks' = <<>>
           ELSE /\ pc' = "extract"
                /\ tasks' = [k \in 1..NumBatches(Len(valid), batch_size) |->
                               NewTask(Batch(valid, k, batch_size))]
    /\ chunks' = <<>>
    /\ final_chunks' = <<>>
    /\ mtasks' = <<>>
    /\ UNCHANGED <<segments, recheck, oracle, valVars, outerVars, extVars>>

ModesNext ==
    \/ Start
    \/ ExtractStep
    \/ AsyncExtractBegin
    \/ AsyncExtractEnd
    \/ BuildChunks
    \/ MergeStep
    \/ AsyncMergeBegin
    \/ AsyncMergeEnd
    \/ AsyncApply
    \/ CallAgain

SpecModes == ModesInit /\ [][ModesNext]_vars

(***************************************************************************)
(* SpecMerge: direct calls of should_merge_chunks_batch and clear_cache on *)
(* one chunker, with pairs of the chunks below.  mtasks is the log of the  *)
(* calls.                                                                  *)
(***************************************************************************)
MaxMergeCalls == 2

PairOf(id) == GoodPair(Segment(id, 60))

\* the lists of the chunks below, by identity
MergeLists ==
    << <<PairOf(1)>>,
       <<PairOf(2)>>,
       <<>>,
       <<PairOf(1)>>,
       <<PairOf(1), PairOf(2), PairOf(3), PairOf(4)>>,
       <<PairOf(1), PairOf(2), PairOf(3), PairOf(5)>> >>

\* chunks 1 and 2 are small; 3 has no pair; 4 has the questions of 1 and a
\* text that can be merged with no other; 5 and 6 differ after their first 3
\* questions only
MergeChunks ==
    << NewChunk(Segment(1, 60), 1),
       NewChunk(Segment(2, 75), 2),
       NewChunk(Segment(3, 60), 3),
       NewChunk(Segment(4, max_chunk_size - 50), 4),
       NewChunk(Segment(5, 60), 5),
       NewChunk(Segment(6, 60), 6) >>

\* chunk_pairs: none; one pair; a pair for the model between two that are
\* rejected at once; rejected pairs only; a pair, and two pairs, of one
\* cache key
MergeInputs ==
    { <<>>,
      << <<1, 2>> >>,
      << <<3, 2>>, <<1, 2>>, <<4, 2>> >>,
      << <<1, 3>>, <<4, 2>> >>,
      << <<5, 2>> >>,
      << <<6, 2>>, <<5, 2>> >> }

\* the answers to a direct call: as in the pipeline, or with a comparison
\* that has no comparison_id
MergeCallResponses(n) ==
    MergeResponses(n)
    \cup { MergeResponse("parsed", [AllMerge(n) EXCEPT ![1].comparison_id = -1]) }

MergeInit ==
    /\ vcand = NonDict
    /\ vout = NotValidated
    /\ qa_cache = EmptyMap
    /\ merge_cache = EmptyMap
    /\ lists = MergeLists
    /\ ExtIdle
    /\ pc = "idle"
    /\ mode = "sync"
    /\ segments = <<>>
    /\ tasks = <<>>
    /\ chunks = MergeChunks
    /\ final_chunks = <<>>
    /\ mtasks = <<>>
    /\ recheck = NoRecheck
    /\ ModesIdle
    /\ OuterIdle

\* one call of should_merge_chunks_batch(chunk_pairs)
CallMerge ==
    /\ Len(mtasks) < MaxMergeCalls
    /\ \E pairs \in MergeInputs :
         LET b == MergeBegin(pairs, merge_cache, chunks, lists)
         IN  \E resp \in IF b.uncached_indices = <<>> THEN {NoMergeResponse}
                         ELSE MergeCallResponses(Len(b.uncached_indices)) :
                LET r == ShouldMergeBatch(pairs, resp, merge_cache, chunks, lists)
                IN  /\ merge_cache' = r.cache
                    /\ mtasks' = Append(mtasks,
                                   MergeReturned(MergeBegun(NewMergeTask(pairs), b),
                                                 resp, r.results))
    /\ UNCHANGED <<pc, mode, segments, tasks, chunks, final_chunks, recheck,
                   qa_cache, lists, valVars, modesVars, outerVars, extVars>>

MergeNext == CallMerge \/ ClearCache

SpecMerge == MergeInit /\ [][MergeNext]_vars

(***************************************************************************)
(* SpecValidator: the validator applied to each candidate                  *)
(***************************************************************************)
ValInit ==
    /\ vcand \in Candidates
    /\ vout = NotValidated
    /\ ChunkerInit
    /\ ExtIdle
    /\ PipeIdle
    /\ ModesIdle
    /\ OuterIdle

Validate ==
    /\ vout = NotValidated
    /\ vout' = ValidateCandidate(vcand)
    /\ UNCHANGED <<vcand, chunkerVars, extVars, pipeVars, modesVars, outerVars>>

ValNext == Validate

SpecValidator == ValInit /\ [][ValNext]_vars

(***************************************************************************)
(* preprocess_text, lines 32-69.  A raw text is a sequence of items like   *)
(* the text of a segment: <<id, n>> with id > 0 is a word of n letters,    *)
(* and the characters the regular expressions look at are items of length  *)
(* 1 with an id below 0.                                                   *)
(***************************************************************************)
Newline == <<-1, 1>>
Space == <<-2, 1>>
Dash == <<-3, 1>>
Dot == <<-4, 1>>
Digit == <<-5, 1>>

\* \s, the class [\•\-\*\d+\.] and the class [.!?], as far as the texts
\* hold their characters
IsWhite(item) == item \in {Newline, Space}
IsListMarker(item) == item \in {Dash, Dot, Digit}
IsStop(item) == item = Dot

Max(S) == CHOOSE x \in S : \A y \in S : y <= x

\* str.strip()
StripText(t) ==
    LET solid == { i \in 1..Len(t) : ~IsWhite(t[i]) }
    IN  IF solid = {} THEN <<>>
        ELSE SubSeq(t, CHOOSE i \in solid : \A j \in solid : i <= j, Max(solid))

\* line 38, re.sub(r"\n\s*\n", "\n\n", text): from a newline the longest
\* run of white space that ends with a newline becomes two newlines
RECURSIVE CollapseFrom(_, _)
CollapseFrom(t, i) ==
    IF i > Len(t) THEN <<>>
    ELSE LET ends == { j \in (i + 1)..Len(t) :
                         /\ t[j] = Newline
                         /\ \A h \in (i + 1)..(j - 1) : IsWhite(t[h]) }
         IN  IF t[i] = Newline /\ ends # {}
             THEN <<Newline, Newline>> \o CollapseFrom(t, Max(ends) + 1)
             ELSE <<t[i]>> \o CollapseFrom(t, i + 1)

CollapseBlankLines(t) == CollapseFrom(t, 1)

\* a slip: the text split at every newline
RECURSIVE SplitAtNewline(_, _, _)
SplitAtNewline(t, i, cur) ==
    IF i > Len(t) THEN <<cur>>
    ELSE IF t[i] = Newline
    THEN <<cur>> \o SplitAtNewline(t, i + 1, <<>>)
    ELSE SplitAtNewline(t, i + 1, Append(cur, t[i]))

\* line 42, text.split("\n\n"), from position i with the piece cur begun
RECURSIVE SplitParagraphs(_, _, _)
SplitParagraphs(t, i, cur) ==
    IF i > Len(t) THEN <<cur>>
    ELSE IF i < Len(t) /\ t[i] = Newline /\ t[i + 1] = Newline
    THEN <<cur>> \o SplitParagraphs(t, i + 2, <<>>)
    ELSE SplitParagraphs(t, i + 1, Append(cur, t[i]))

\* line 53, re.split(r"\n(?=[\•\-\*\d+\.])", para)
RECURSIVE SplitItems(_, _, _)
SplitItems(t, i, cur) ==
    IF i > Len(t) THEN <<cur>>
    ELSE IF i < Len(t) /\ t[i] = Newline /\ IsListMarker(t[i + 1])
    THEN <<cur>> \o SplitItems(t, i + 1, <<>>)
    ELSE SplitItems(t, i + 1, Append(cur, t[i]))

\* line 68, re.split(r"(?<=[.!?])\s+", text)
RECURSIVE SplitSentences(_, _, _)
SplitSentences(t, i, cur) ==
    IF i > Len(t) THEN <<cur>>
    ELSE IF i > 1 /\ IsWhite(t[i]) /\ IsStop(t[i - 1])
    THEN LET white == { j \in i..Len(t) : \A h \in i..j : IsWhite(t[h]) }
         IN  <<cur>> \o SplitSentences(t, Max(white) + 1, <<>>)
    ELSE SplitSentences(t, i + 1, Append(cur, t[i]))

\* [x.strip() for x in pieces if x.strip()], lines 54 and 69
StrippedNonEmpty(pieces) ==
    SelectSeq([k \in 1..Len(pieces) |-> StripText(pieces[k])], LAMBDA piece : piece # <<>>)

\* lines 66-69
_split_into_sentences(t) == StrippedNonEmpty(SplitSentences(t, 1, <<>>))

\* line 51, re.match(r"^[\•\-\*\d+\.]\s", para)
IsList(para) == Len(para) >= 2 /\ IsListMarker(para[1]) /\ IsWhite(para[2])

\* lines 45-63: the segments of one paragraph
ParagraphSegments(para) ==
    IF para = <<>> THEN <<>>
    ELSE IF IsList(para) THEN StrippedNonEmpty(SplitItems(para, 1, <<>>))
    ELSE IF TextLen(para) <= max_chunk_size THEN <<para>>
    ELSE _split_into_sentences(para)

\* line 42 after lines 38-39
Paragraphs(t) ==
    LET pieces == SplitParagraphs(StripText(CollapseBlankLines(t)), 1, <<>>)
    IN  [k \in 1..Len(pieces) |-> StripText(pieces[k])]

preprocess_text(t) ==
    LET paragraphs == Paragraphs(t)
    IN  Flatten([k \in 1..Len(paragraphs) |-> ParagraphSegments(paragraphs[k])])

(***************************************************************************)
(* SpecText: chunk_text(text), lines 577-582, on a new chunker: the text   *)
(* preprocessed and chunk_segments called with its segments.  The model    *)
(* may give any of its answers.                                            *)
(***************************************************************************)
MaxParagraphs == 10

Blank == <<Newline, Newline>>
Word(id, n) == <<id, n>>

\* n paragraphs of one word, of the given lengths, blank lines between
RECURSIVE Joined(_, _)
Joined(paras, blank) ==
    IF Len(paras) = 0 THEN <<>>
    ELSE IF Len(paras) = 1 THEN paras[1]
    ELSE paras[1] \o blank \o Joined(Tail(paras), blank)

ThreeParagraphs ==
    { Joined(<< <<Word(1, a)>>, <<Word(2, b)>>, <<Word(3, c)>> >>, Blank) :
        a \in {49, 50}, b \in {50, max_chunk_size}, c \in {50} }

\* the blank line holding spaces, white space around the text, a newline
\* inside a paragraph, a paragraph said twice
SpacedParagraphs ==
    { <<Space, Newline>>
        \o Joined(<< <<Word(1, 50)>>, <<Word(2, 20), Newline, Word(3, 40)>>, <<Word(1, 50)>> >>,
                  <<Newline, Space, Newline, Newline>>)
        \o <<Newline, Newline>> }

\* a list of two items between two paragraphs; a paragraph of two sentences
\* that is longer than max_chunk_size as a whole
ListParagraphs ==
    { Joined(<< <<Word(1, 50)>>,
                <<Dash, Space, Word(2, 50), Newline, Dash, Space, Word(3, 50)>>,
                <<Word(4, 50)>> >>, Blank),
      Joined(<< <<Word(1, 50)>>,
                <<Word(2, 600), Dot, Space, Word(3, 600), Dot>>,
                <<Word(4, 50)>> >>, Blank) }

ManyParagraphs ==
    { Joined([k \in 1..n |-> <<Word(k, 50)>>], Blank) : n \in {MaxParagraphs - 1, MaxParagraphs} }

\* a list whose items begin "1. " between two paragraphs, and one whose
\* items begin with a digit and a space
NumberedLists ==
    { Joined(<< <<Word(1, 50)>>,
                <<Digit, Dot, Space, Word(2, 50), Newline, Digit, Dot, Space, Word(3, 50)>>,
                <<Word(4, 50)>> >>, Blank),
      <<Digit, Space, Word(1, 50), Newline, Digit, Space, Word(2, 50)>> }

\* a list with an item longer than max_chunk_size; a paragraph longer than
\* max_chunk_size that is one sentence; one whose first sentence is longer
LongSegments ==
    { <<Dash, Space, Word(1, max_chunk_size), Newline, Dash, Space, Word(2, 50)>>,
      <<Word(1, max_chunk_size + 1)>>,
      <<Word(1, max_chunk_size + 1), Dot, Space, Word(2, 50), Dot>> }

TextInputs ==
    {<<>>} \cup ThreeParagraphs \cup SpacedParagraphs \cup ListParagraphs \cup ManyParagraphs
        \cup NumberedLists \cup LongSegments

TextInit ==
    /\ vcand = NonDict
    /\ vout = NotValidated
    /\ ChunkerInit
    /\ ExtIdle
    /\ PipeIdle
    /\ ModesIdle
    /\ text_content \in TextInputs
    /\ UploadIdle
    /\ search = NoSearch
    /\ RecoverIdle
    /\ StudyIdle

\* lines 581-582 and 598-609
StartText ==
    /\ pc = "idle"
    /\ segments' = preprocess_text(text_content)
    /\ mode' = "sync"
    /\ LET valid == ValidSegments(segments')
       IN  IF valid = <<>>
           THEN /\ pc' = "done"
                /\ tasks' = <<>>
           ELSE /\ pc' = "extract"
                /\ tasks' = [k \in 1..NumBatches(Len(valid), batch_size) |->
                               NewTask(Batch(valid, k, batch_size))]
    /\ UNCHANGED <<chunks, final_chunks, mtasks, recheck, chunkerVars, valVars,
                   modesVars, outerVars, extVars>>

TextNext ==
    \/ StartText
    \/ ExtractStep
    \/ BuildChunks
    \/ MergeStep

SpecText == TextInit /\ [][TextNext]_vars

(***************************************************************************)
(* SpecUpload: process_text_file_to_flashcards, flashcard.py lines         *)
(* 232-328, on the bytes of one file.  The model may give any of its       *)
(* answers; embed_and_store_flashcards, which embeds with the embedding    *)
(* model and writes to the database, returns or raises.                    *)
(***************************************************************************)
\* chunker.py lines 814-822
get_all_qa_pairs(cs) == Flatten([c \in 1..Len(cs) |-> cs[c].qa_pairs])

\* a slip: no pair filtered out
KeepAllPairs(pairs) == pairs

\* lines 276-305: the pair stripped again, or dropped
PassesFilter(qa) ==
    LET question == Strip(qa.question)
        answer == Strip(qa.answer)
    IN  /\ question # <<>> /\ Len(question) >= 5
        /\ answer # <<>> /\ Len(answer) >= 3
        /\ Lower(answer) \notin FlashcardPlaceholders

FilterPairs(pairs) ==
    LET kept == SelectSeq(pairs, PassesFilter)
    IN  [i \in 1..Len(kept) |-> Pair(Strip(kept[i].question), Strip(kept[i].answer))]

\* the files: bytes that do not decode; an empty text; one paragraph below
\* and one at min_chunk_size; three paragraphs; enough paragraphs for the
\* merge phase
UploadTexts ==
    { <<>>, <<Word(1, 49)>>, <<Word(1, 50)>>,
      Joined(<< <<Word(1, 50)>>, <<Word(2, 50)>>, <<Word(3, 49)>> >>, Blank),
      Joined([k \in 1..MaxParagraphs |-> <<Word(k, 50)>>], Blank) }

UploadFiles ==
    { Bytes(TRUE, t) : t \in UploadTexts } \cup { Bytes(FALSE, <<>>) }

UploadInit ==
    /\ vcand = NonDict
    /\ vout = NotValidated
    /\ ChunkerInit
    /\ ExtIdle
    /\ PipeIdle
    /\ ModesIdle
    /\ text_content = NoText
    /\ file_content \in UploadFiles
    /\ upload = Upload("called", "none", FALSE, <<>>)
    /\ search = NoSearch
    /\ RecoverIdle
    /\ StudyIdle

\* lines 247-257, and chunker.py lines 589-590 and 710-728: the bytes
\* decoded, AgenticChunker(model=ollama_chat), chunk_text_async begun
Decode ==
    /\ upload.pc = "called"
    /\ IF ~file_content.decodes
       THEN /\ upload' = [upload EXCEPT !.pc = "raised", !.error = "Failed to decode text file"]
            /\ UNCHANGED <<text_content, pipeVars>>
       ELSE /\ text_content' = file_content.text
            /\ upload' = [upload EXCEPT !.pc = "chunking"]
            /\ segments' = preprocess_text(file_content.text)
            /\ mode' = "async"
            /\ LET valid == ValidSegments(segments')
               IN  IF valid = <<>>
                   THEN /\ pc' = "done"
                        /\ tasks' = <<>>
                   ELSE /\ pc' = "extract"
                        /\ tasks' = [k \in 1..NumBatches(Len(valid), batch_size) |->
                                       NewTask(Batch(valid, k, batch_size))]
            /\ UNCHANGED <<chunks, final_chunks, mtasks, recheck>>
    /\ UNCHANGED <<file_content, search, recoverVars, study, chunkerVars, valVars,
                   modesVars, extVars>>

\* the outcomes of embed_and_store_flashcards, lines 183-229
StoreOutcomes == {"stored", "raise"}

\* lines 259-328, after chunk_text_async has returned
Finish ==
    /\ upload.pc = "chunking"
    /\ pc = "done"
    /\ LET all_qa_pairs == get_all_qa_pairs(
                             [c \in 1..Len(final_chunks) |->
                                [chunks[final_chunks[c]] EXCEPT !.qa_pairs = lists[@]]])
           filtered_qa_pairs == FilterPairs(all_qa_pairs)
       IN  IF all_qa_pairs = <<>>
           THEN upload' = [upload EXCEPT !.pc = "raised",
                              !.error = "No question-answer pairs could be extracted"]
           ELSE IF filtered_qa_pairs = <<>>
           THEN upload' = [upload EXCEPT !.pc = "raised",
                              !.error = "All extracted QA pairs were invalid"]
           ELSE \E outcome \in StoreOutcomes :
                   upload' = [upload EXCEPT
                                !.pc = IF outcome = "raise" THEN "raised" ELSE "returned",
                                !.error = IF outcome = "raise"
                                          THEN "Failed to process text file" ELSE "none",
                                !.invoked = TRUE,
                                !.flashcards = filtered_qa_pairs]
    /\ UNCHANGED <<text_content, file_content, search, recoverVars, study, pipeVars,
                   chunkerVars, valVars, modesVars, extVars>>

UploadNext ==
    \/ Decode
    \/ AsyncExtractBegin
    \/ AsyncExtractEnd
    \/ BuildChunks
    \/ AsyncMergeBegin
    \/ AsyncMergeEnd
    \/ AsyncApply
    \/ Finish

SpecUpload == UploadInit /\ [][UploadNext]_vars

(***************************************************************************)
(* SpecSearch: search_flashcards, chat.py lines 44-122.  The search is     *)
(* handed to the executor of line 19, whose threads other searches may     *)
(* hold, and the caller waits for its result for at most search_timeout    *)
(* seconds.  The clock is counted in seconds.                              *)
(***************************************************************************)
search_workers == 3
search_timeout == 30

\* the cards a search can find
Card(id) == [id |-> id, question |-> Strip(QuestionFor(Segment(id, 60))),
             answer |-> Strip(AnswerFor(Segment(id, 60)))]
CardLists == { <<>>, <<Card(1)>>, <<Card(1), Card(2)>> }

\* a slip: the wait not guarded, what it raises leaves the tool
ReturnUnguarded(how, cards) ==
    IF how = "result" THEN [out |-> cards, raised |-> FALSE]
    ELSE [out |-> <<>>, raised |-> TRUE]

\* lines 113-122: the result of the future returned; TimeoutError and the
\* exception of the job caught, [] returned
ReturnGuarded(how, cards) ==
    IF how = "result" THEN [out |-> cards, raised |-> FALSE]
    ELSE [out |-> <<>>, raised |-> FALSE]

SearchInit ==
    /\ vcand = NonDict
    /\ vout = NotValidated
    /\ ChunkerInit
    /\ ExtIdle
    /\ PipeIdle
    /\ ModesIdle
    /\ text_content = NoText
    /\ UploadIdle
    /\ RecoverIdle
    /\ StudyIdle
    /\ \E b \in 0..search_workers : search = [NoSearch EXCEPT !.pc = "called", !.busy = b]

searchOthers == <<chunkerVars, pipeVars, valVars, modesVars, extVars,
                  text_content, file_content, upload, recoverVars, study>>

\* line 114: executor.submit(sync_search)
Submit ==
    /\ search.pc = "called"
    /\ search' = [search EXCEPT !.pc = "waiting", !.job = "queued"]
    /\ UNCHANGED searchOthers

\* another search ends and frees its thread
OtherJobEnds ==
    /\ search.busy > 0
    /\ search' = [search EXCEPT !.busy = @ - 1]
    /\ UNCHANGED searchOthers

\* a free thread of the executor takes the job
JobStarts ==
    /\ search.job = "queued"
    /\ search.busy < search_workers
    /\ search' = [search EXCEPT !.job = "running"]
    /\ UNCHANGED searchOthers

\* lines 60-110: sync_search ends.  async_search returns the cards, or []
\* for an exception of the embedding or the query (lines 96-101); an
\* exception outside its try (the event loop, lines 104-110) leaves the job
JobEnds ==
    /\ search.job = "running"
    /\ \/ \E cards \in CardLists : search' = [search EXCEPT !.job = "done", !.cards = cards]
       \/ search' = [search EXCEPT !.job = "failed"]
    /\ UNCHANGED searchOthers

\* a second passes while future.result(timeout=30) waits
Tick ==
    /\ search.pc = "waiting"
    /\ search.job \in {"queued", "running"}
    /\ search.waited < search_timeout
    /\ search' = [search EXCEPT !.waited = @ + 1]
    /\ UNCHANGED searchOthers

\* lines 115-122: future.result returns or raises, search_flashcards returns
Return ==
    /\ search.pc = "waiting"
    /\ LET how == CASE search.job = "done" -> "result"
                    [] search.job = "failed" -> "exception"
                    [] OTHER -> "timeout"
           r == ReturnGuarded(how, search.cards)
       IN  /\ how = "timeout" => search.waited = search_timeout
           /\ search' = [search EXCEPT !.pc = "returned", !.how = how,
                                       !.out = r.out, !.raised = r.raised]
    /\ UNCHANGED searchOthers

SearchNext ==
    \/ Submit
    \/ OtherJobEnds
    \/ JobStarts
    \/ JobEnds
    \/ Tick
    \/ Return

SpecSearch == SearchInit /\ [][SearchNext]_vars

(***************************************************************************)
(* The text of a response, chunker.py lines 148-209 and 320-393: Python    *)
(* str operations on sequences of characters.  Indices are those of        *)
(* Python plus one, and 0 stands for "not found".                          *)
(***************************************************************************)
MinOf(S) == CHOOSE x \in S : \A y \in S : x <= y

Positions(s, c) == { i \in 1..Len(s) : s[i] = c }

\* str.count, str.find, str.rfind, str.startswith
Count(s, c) == Cardinality(Positions(s, c))
Find(s, c) == IF Positions(s, c) = {} THEN 0 ELSE MinOf(Positions(s, c))
RFind(s, c) == IF Positions(s, c) = {} THEN 0 ELSE Max(Positions(s, c))
StartsWith(s, prefix) == Len(s) >= Len(prefix) /\ SubSeq(s, 1, Len(prefix)) = prefix

\* s holds lit at position i
HasAt(s, i, lit) == i + Len(lit) - 1 <= Len(s) /\ SubSeq(s, i, i + Len(lit) - 1) = lit

\* the character U+0060, which no string of the notation can hold
Backtick == "tick"

Fence == <<Backtick, Backtick, Backtick>>
FenceJson == <<Backtick, Backtick, Backtick, "j", "s", "o", "n">>

\* content.split("\n"): lines[0], lines[1:], lines[-1] and lines[:-1],
\* the lists of lines as the text they join to
FirstLine(s) == IF Find(s, "\n") = 0 THEN s ELSE SubSeq(s, 1, Find(s, "\n") - 1)

\* a slip: lines[2:], the first line of the document lost with the fence
AfterSecondLine(s) ==
    LET rest == IF Find(s, "\n") = 0 THEN <<>> ELSE SubSeq(s, Find(s, "\n") + 1, Len(s))
    IN  IF Find(rest, "\n") = 0 THEN <<>> ELSE SubSeq(rest, Find(rest, "\n") + 1, Len(rest))

AfterFirstLine(s) == IF Find(s, "\n") = 0 THEN <<>> ELSE SubSeq(s, Find(s, "\n") + 1, Len(s))
LastLine(s) == IF RFind(s, "\n") = 0 THEN s ELSE SubSeq(s, RFind(s, "\n") + 1, Len(s))
BeforeLastLine(s) == IF RFind(s, "\n") = 0 THEN <<>> ELSE SubSeq(s, 1, RFind(s, "\n") - 1)

\* lines 159-166
RemoveFences(s) ==
    IF ~StartsWith(s, Fence) THEN s
    ELSE LET opened == IF Strip(FirstLine(s)) \in {FenceJson, Fence}
                       THEN AfterFirstLine(s) ELSE s
             closed == IF Strip(LastLine(opened)) = Fence
                       THEN BeforeLastLine(opened) ELSE opened
         IN  Strip(closed)

\* lines 169-178: content[json_start:json_end]
JsonSpan(s) == SubSeq(s, Find(s, "{"), RFind(s, "}"))

\* re.sub(r",\s*$", "", s)
RemoveTrailingComma(s) ==
    LET solid == { i \in 1..Len(s) : ~IsSpace(s[i]) }
    IN  IF solid # {} /\ s[Max(solid)] = "," THEN SubSeq(s, 1, Max(solid) - 1) ELSE s

Repeat(piece, n) ==
    [i \in 1..(IF n > 0 THEN n * Len(piece) ELSE 0) |-> piece[((i - 1) % Len(piece)) + 1]]

\* lines 320-356
_repair_incomplete_json(s) ==
    IF Count(s, "{") = Count(s, "}") /\ Count(s, "[") = Count(s, "]") THEN s
    ELSE RemoveTrailingComma(Strip(s))
           \o Repeat(<<"\n", " ", " ", "]">>, Count(s, "[") - Count(s, "]"))
           \o Repeat(<<"\n", "}">>, Count(s, "{") - Count(s, "}"))

\* \s* and \d* from position i: the position after them
SkipSpace(s, i) == MinOf({ j \in i..(Len(s) + 1) : j > Len(s) \/ ~IsSpace(s[j]) })
IsDigit(c) == c \in {"0", "1", "2", "3", "4", "5", "6", "7", "8", "9"}
SkipDigits(s, i) == MinOf({ j \in i..(Len(s) + 1) : j > Len(s) \/ ~IsDigit(s[j]) })

SegmentIdStart == <<"{", "\"", "s", "e", "g", "m", "e", "n", "t", "_", "i", "d", "\"", ":">>
QaPairsKey == <<"\"", "q", "a", "_", "p", "a", "i", "r", "s", "\"", ":">>

\* line 368, segment_pattern: the last position of the match that begins
\* at position i, or 0.  [^\]]* ends at the first "]", which "}" must follow
MatchSegment(s, i) ==
    IF ~HasAt(s, i, SegmentIdStart) THEN 0
    ELSE LET a == SkipSpace(s, i + Len(SegmentIdStart))
             b == SkipDigits(s, a)
         IN  IF b = a \/ ~HasAt(s, b, <<",">>) THEN 0
             ELSE LET c == SkipSpace(s, b + 1)
                  IN  IF ~HasAt(s, c, QaPairsKey) THEN 0
                      ELSE LET d == SkipSpace(s, c + Len(QaPairsKey))
                               close == { j \in (d + 1)..Len(s) : s[j] = "]" }
                           IN  IF ~HasAt(s, d, <<"[">>) \/ close = {} THEN 0
                               ELSE IF HasAt(s, MinOf(close) + 1, <<"}">>)
                                    THEN MinOf(close) + 1 ELSE 0

\* lines 370-373: re.finditer from the left, matches[-1].end()
RECURSIVE LastMatchEnd(_, _, _)
LastMatchEnd(s, from, last) ==
    LET starts == { i \in from..Len(s) : MatchSegment(s, i) # 0 }
    IN  IF starts = {} THEN last
        ELSE LastMatchEnd(s, MatchSegment(s, MinOf(starts)) + 1,
                          MatchSegment(s, MinOf(starts)))

\* lines 358-393
_aggressive_json_repair(s, expected_segments) ==
    LET last_complete == LastMatchEnd(s, 1, 0)
    IN  IF last_complete > 0
        THEN RemoveTrailingComma(SubSeq(s, 1, last_complete)) \o <<"\n", " ", " ", "]", "\n", "}">>
        ELSE _repair_incomplete_json(s)

(***************************************************************************)
(* json.loads, for texts without escapes, signs, fractions and exponents.  *)
(* A value is [t, v]: an object with its members <<key, value>> in the     *)
(* order of the text, an array with its elements, a string, a number or a  *)
(* literal with its characters.                                            *)
(***************************************************************************)
JObject(members) == [t |-> "object", v |-> members]
JArray(elements) == [t |-> "array", v |-> elements]
JString(chars) == [t |-> "string", v |-> chars]
JNumber(digits) == [t |-> "number", v |-> digits]
JLiteral(name) == [t |-> "literal", v |-> name]

Parsed(v, next) == [ok |-> TRUE, v |-> v, next |-> next]
NotParsed == [ok |-> FALSE, v |-> JLiteral(<<>>), next |-> 0]

JsonLiterals == { <<"n", "u", "l", "l">>, <<"t", "r", "u", "e">>, <<"f", "a", "l", "s", "e">> }

\* a string from its opening quote at position i; a control character
\* inside it is an error
ParseString(s, i) ==
    LET close == { j \in (i + 1)..Len(s) : s[j] = "\"" }
    IN  IF close = {} THEN NotParsed
        ELSE IF \E j \in (i + 1)..(MinOf(close) - 1) : s[j] \in {"\n", "\r", "\t"}
        THEN NotParsed
        ELSE Parsed(JString(SubSeq(s, i + 1, MinOf(close) - 1)), MinOf(close) + 1)

RECURSIVE ParseValue(_, _), ParseMembers(_, _, _), ParseElements(_, _, _)
ParseValue(s, i) ==
    LET j == SkipSpace(s, i)
    IN  IF j > Len(s) THEN NotParsed
        ELSE IF s[j] = "{"
        THEN IF HasAt(s, SkipSpace(s, j + 1), <<"}">>)
             THEN Parsed(JObject(<<>>), SkipSpace(s, j + 1) + 1)
             ELSE ParseMembers(s, j + 1, <<>>)
        ELSE IF s[j] = "["
        THEN IF HasAt(s, SkipSpace(s, j + 1), <<"]">>)
             THEN Parsed(JArray(<<>>), SkipSpace(s, j + 1) + 1)
             ELSE ParseElements(s, j + 1, <<>>)
        ELSE IF s[j] = "\"" THEN ParseString(s, j)
        ELSE IF s[j] = "0" THEN Parsed(JNumber(<<"0">>), j + 1)
        ELSE IF IsDigit(s[j])
        THEN Parsed(JNumber(SubSeq(s, j, SkipDigits(s, j) - 1)), SkipDigits(s, j))
        ELSE IF \E lit \in JsonLiterals : HasAt(s, j, lit)
        THEN LET lit == CHOOSE l \in JsonLiterals : HasAt(s, j, l)
             IN  Parsed(JLiteral(lit), j + Len(lit))
        ELSE NotParsed

\* the members of an object from position i, acc the members before it
ParseMembers(s, i, acc) ==
    LET j == SkipSpace(s, i)
        key == IF HasAt(s, j, <<"\"">>) THEN ParseString(s, j) ELSE NotParsed
        colon == SkipSpace(s, key.next)
        val == IF key.ok /\ HasAt(s, colon, <<":">>) THEN ParseValue(s, colon + 1)
               ELSE NotParsed
        after == SkipSpace(s, val.next)
    IN  IF ~val.ok THEN NotParsed
        ELSE IF HasAt(s, after, <<",">>)
        THEN ParseMembers(s, after + 1, Append(acc, <<key.v.v, val.v>>))
        ELSE IF HasAt(s, after, <<"}">>)
        THEN Parsed(JObject(Append(acc, <<key.v.v, val.v>>)), after + 1)
        ELSE NotParsed

\* the elements of an array from position i
ParseElements(s, i, acc) ==
    LET val == ParseValue(s, i)
        after == SkipSpace(s, val.next)
    IN  IF ~val.ok THEN NotParsed
        ELSE IF HasAt(s, after, <<",">>)
        THEN ParseElements(s, after + 1, Append(acc, val.v))
        ELSE IF HasAt(s, after, <<"]">>)
        THEN Parsed(JArray(Append(acc, val.v)), after + 1)
        ELSE NotParsed

\* json.loads(s): one value and nothing but white space after it
Loads(s) ==
    LET p == ParseValue(s, 1)
    IN  IF p.ok /\ SkipSpace(s, p.next) > Len(s) THEN p ELSE NotParsed

SegmentsName == <<"s", "e", "g", "m", "e", "n", "t", "s">>

\* `key in result' and result[key] of a dict: the last member of that key
HasKey(obj, key) == \E m \in 1..Len(obj.v) : obj.v[m][1] = key
ValueAt(obj, key) == obj.v[Max({ m \in 1..Len(obj.v) : obj.v[m][1] = key })][2]

\* lines 148-209: what the code makes of the text of a response: the
\* failure it returns with, or the dict it goes on with
Recovery(kind, result) == [kind |-> kind, result |-> result]
NothingParsed == JLiteral(<<>>)

Recover(content, expected_segments) ==
    IF content = <<>> \/ Len(content) < 10 THEN Recovery("short", NothingParsed)
    ELSE LET cleaned == RemoveFences(Strip(content))
         IN  IF Find(cleaned, "{") = 0 \/ RFind(cleaned, "}") = 0
             THEN Recovery("nojson", NothingParsed)
             ELSE LET repaired == _repair_incomplete_json(JsonSpan(cleaned))
                      first == Loads(repaired)
                      second == IF first.ok THEN first
                                ELSE Loads(_aggressive_json_repair(repaired, expected_segments))
                  IN  IF ~second.ok THEN Recovery("unparseable", NothingParsed)
                      ELSE IF second.v.t # "object" \/ ~HasKey(second.v, SegmentsName)
                      THEN Recovery("badstructure", NothingParsed)
                      ELSE Recovery("parsed", second.v)

(***************************************************************************)
(* The responses of the model as texts, lines 106-148: the document the    *)
(* prompt asks for, in the layouts a model writes it in, cut where the     *)
(* output limit falls, or wrapped in a fence.                              *)
(***************************************************************************)
MaxRecords == 2

\* what a layout writes after an opening bracket, after a colon, after a
\* comma and before a closing bracket
Layout(open, colon, comma, close) ==
    [open |-> open, colon |-> colon, comma |-> comma, close |-> close]
Compact == Layout(<<>>, <<>>, <<>>, <<>>)
Spaced == Layout(<<>>, <<" ">>, <<" ">>, <<>>)
Pretty == Layout(<<"\n", " ">>, <<" ">>, <<"\n", " ">>, <<"\n">>)

RECURSIVE JoinedBy(_, _)
JoinedBy(parts, sep) ==
    IF Len(parts) = 0 THEN <<>>
    ELSE IF Len(parts) = 1 THEN parts[1]
    ELSE parts[1] \o sep \o JoinedBy(Tail(parts), sep)

Quoted(chars) == <<"\"">> \o chars \o <<"\"">>
Member(lay, key, value) == Quoted(key) \o <<":">> \o lay.colon \o value
Obj(lay, members) ==
    <<"{">> \o lay.open \o JoinedBy(members, <<",">> \o lay.comma) \o lay.close \o <<"}">>
Arr(lay, elements) ==
    IF Len(elements) = 0 THEN <<"[", "]">>
    ELSE <<"[">> \o lay.open \o JoinedBy(elements, <<",">> \o lay.comma)
           \o lay.close \o <<"]">>

QuestionName == <<"q", "u", "e", "s", "t", "i", "o", "n">>
AnswerName == <<"a", "n", "s", "w", "e", "r">>
SegmentIdName == <<"s", "e", "g", "m", "e", "n", "t", "_", "i", "d">>
QaPairsName == <<"q", "a", "_", "p", "a", "i", "r", "s">>

RenderPair(lay, pair) ==
    Obj(lay, << Member(lay, QuestionName, Quoted(pair.question)),
                Member(lay, AnswerName, Quoted(pair.answer)) >>)
RenderRecord(lay, rec) ==
    Obj(lay, << Member(lay, SegmentIdName, <<Letters[27 + rec.segment_id]>>),
                Member(lay, QaPairsName,
                       Arr(lay, [p \in 1..Len(rec.qa_pairs) |->
                                    RenderPair(lay, rec.qa_pairs[p])])) >>)
\* the root object and its array in one layout, the records in another
RenderDocument(outer, inner, recs) ==
    Obj(outer, << Member(outer, SegmentsName,
                         Arr(outer, [r \in 1..Len(recs) |->
                                        RenderRecord(inner, recs[r])])) >>)

\* record i has one pair or two; mark is the last character of its
\* first answer
PairIn(i, p, mark) ==
    Pair(<<"Q", Letters[2 * i + p]>>, <<"A", IF p = 1 THEN mark ELSE Letters[2 * i + p]>>)
RecordOf(i, mark) ==
    [segment_id |-> i, qa_pairs |-> [p \in 1..((i % 2) + 1) |-> PairIn(i, p, mark)]]
RecordsOf(n, mark) == [r \in 1..n |-> RecordOf(r - 1, mark)]

\* as the prompt lays it out, without any white space, one item a line,
\* and with a closing bracket in an answer
JsonDocuments ==
    { RenderDocument(Pretty, Spaced, RecordsOf(MaxRecords, "x")),
      RenderDocument(Compact, Compact, RecordsOf(MaxRecords, "x")),
      RenderDocument(Pretty, Pretty, RecordsOf(MaxRecords, "x")),
      RenderDocument(Compact, Compact, RecordsOf(MaxRecords, "]")) }

\* balanced documents of other shapes
OtherDocuments ==
    { <<"{", "}">>, <<"[", "1", "]">>, <<"{", "\"", "a", "\"", ":", "1", "}">>, <<"{", "\"", "i", "t", "e", "m", "s", "\"", ":", " ", "[", "1", ",", " ", "2", "]", "}">>, <<"{", "\"", "s", "e", "g", "m", "e", "n", "t", "s", "\"", ":", "[", "]", "}">> }

FenceKinds == {"plain", "json", "plain padded", "json padded"}
OpeningFence(fence) == IF fence \in {"json", "json padded"} THEN FenceJson ELSE Fence

Wrapped(fence, d) ==
    IF fence = "none" THEN d
    ELSE IF fence \in {"plain", "json"}
    THEN OpeningFence(fence) \o <<"\n">> \o d \o <<"\n">> \o Fence
    ELSE <<"\n", " ">> \o OpeningFence(fence) \o <<" ", "\n", "\n">> \o d
           \o <<"\n", "\n", " ">> \o Fence \o <<" ", "\n">>

\* line 148: the text of the response
ContentOf(r) == Wrapped(r.fence, SubSeq(r.document, 1, r.kept))

Replies ==
    { Reply(d, kept, "none") : d \in JsonDocuments, kept \in 1..Max({ Len(x) : x \in JsonDocuments }) }
    \cup { Reply(d, Len(d), fence) : d \in JsonDocuments \cup OtherDocuments,
                                       fence \in FenceKinds \cup {"none"} }

(***************************************************************************)
(* SpecRecover: the recovery of one response, and _repair_incomplete_json  *)
(* called on its text.                                                     *)
(***************************************************************************)
RecoverInit ==
    /\ vcand = NonDict
    /\ vout = NotValidated
    /\ ChunkerInit
    /\ ExtIdle
    /\ PipeIdle
    /\ ModesIdle
    /\ text_content = NoText
    /\ UploadIdle
    /\ search = NoSearch
    /\ reply \in { r \in Replies : r.kept <= Len(r.document) }
    /\ recovered = NotRecovered
    /\ StudyIdle

recoverOthers == <<valVars, chunkerVars, extVars, pipeVars, modesVars,
                   text_content, file_content, upload, search, study>>

\* _repair_incomplete_json(content)
CallRepair ==
    /\ reply # NoReply
    /\ ~recovered.soft.done
    /\ recovered' = [recovered EXCEPT
                        !.soft = [done |-> TRUE,
                                  text |-> _repair_incomplete_json(ContentOf(reply))]]
    /\ UNCHANGED <<reply, recoverOthers>>

\* lines 148-209 of extract_qa_pairs_batch
CallRecover ==
    /\ reply # NoReply
    /\ ~recovered.full.done
    /\ recovered' = [recovered EXCEPT
                        !.full = [done |-> TRUE,
                                  outcome |-> Recover(ContentOf(reply), MaxRecords)]]
    /\ UNCHANGED <<reply, recoverOthers>>

RecoverNext == CallRepair \/ CallRecover

SpecRecover == RecoverInit /\ [][RecoverNext]_vars

(***************************************************************************)
(* SpecCaches: calls of extract_qa_pairs_batch and of                      *)
(* should_merge_chunks_batch on one chunker, in any order, and clear_cache *)
(* between them.                                                           *)
(***************************************************************************)
MaxSharedCalls == 2

SharedExtract ==
    /\ ncalls + Len(mtasks) < MaxSharedCalls
    /\ CallExtract

SharedMerge ==
    /\ ncalls + Len(mtasks) < MaxSharedCalls
    /\ CallMerge

CachesNext == SharedExtract \/ SharedMerge \/ ClearCache

SpecCaches == MergeInit /\ [][CachesNext]_vars

(***************************************************************************)
(* SpecSession: the study session of one user.  study_chat and             *)
(* reset_study_session (routes/chat.py) and the graph that                 *)
(* build_agentic_graph compiles (services/chat.py): graph.invoke runs the  *)
(* entry router, then node after node, route_conversation after each,      *)
(* until the route is END.  One node execution is one step.                *)
(***************************************************************************)
MaxRequests == 6
MaxCards == 2

END == "__end__"

\* request.message: blank, with one of the words "next", "continue",
\* "skip" in it, and without
UserMessages == {" ", "next", "mitosis"}
IsBlank(message) == message = " "
HasKeyword(message) == message = "next"

\* [msg for msg in state["messages"] if isinstance(msg, HumanMessage)]
HumanMessages(st) == SelectSeq(st.messages, LAMBDA m : m.type = "human")

\* a slip: a user message anywhere in the conversation
AnyUserMessage(st) == HumanMessages(st) # <<>>

\* lines 457-481
has_new_user_message(st) ==
    LET ai == { i \in 1..Len(st.messages) : st.messages[i].type = "ai" }
    IN  IF st.messages = <<>> THEN FALSE
        ELSE IF ai = {} THEN \E i \in 1..Len(st.messages) : st.messages[i].type = "human"
        ELSE \E i \in (Max(ai) + 1)..Len(st.messages) : st.messages[i].type = "human"

\* lines 484-535
route_conversation(st) ==
    LET has_user_msg == has_new_user_message(st)
        user_messages == HumanMessages(st)
    IN  CASE st.current_step \in {"greet", "start"} -> "greet_user"
          [] st.current_step = "waiting_for_topic" ->
                IF has_user_msg THEN "extract_topic" ELSE END
          [] st.current_step = "topic_extracted" -> "search_flashcards"
          [] st.current_step = "ready_to_ask" -> "ask_question"
          [] st.current_step = "waiting_for_answer" ->
                IF has_user_msg /\ user_messages # <<>>
                THEN IF HasKeyword(Last(user_messages).content)
                     THEN "ask_question" ELSE "grade_answer"
                ELSE END
          [] st.current_step = "waiting_for_continue" ->
                IF has_user_msg THEN "ask_question" ELSE END
          [] OTHER -> END

\* lines 548-559
entry_router(st) ==
    IF st.current_step = "start" THEN "greet_user" ELSE route_conversation(st)

\* lines 139-164
greet_user(st) ==
    [st EXCEPT !.messages = Append(@, AIMessage("greeting", 0, 0)),
               !.session_complete = FALSE,
               !.asked_card_indices = <<>>,
               !.session_scores = <<>>,
               !.current_step = "waiting_for_topic",
               !.needs_user_input = TRUE]

\* lines 167-197, the model having answered with topic
extract_topic(st, topic) ==
    IF HumanMessages(st) = <<>>
    THEN [st EXCEPT !.current_step = "waiting_for_topic", !.needs_user_input = TRUE]
    ELSE [st EXCEPT !.study_topic = topic,
                    !.current_step = "topic_extracted",
                    !.needs_user_input = FALSE]

\* what search_tool.invoke did: the cards it returned, or that it raised
Found(kind, cards) == [kind |-> kind, cards |-> cards]

\* lines 200-261
search_flashcards_node(st, found) ==
    IF st.study_topic \in {NoString, ""}
    THEN [st EXCEPT !.messages = Append(@, AIMessage("topic not understood", 0, 0)),
                    !.retrieved_cards = <<>>,
                    !.current_step = "waiting_for_topic",
                    !.needs_user_input = TRUE]
    ELSE IF found.kind = "raised"
    THEN [st EXCEPT !.messages = Append(@, AIMessage("trouble finding flashcards", 0, 0)),
                    !.retrieved_cards = <<>>,
                    !.session_complete = TRUE,
                    !.current_step = "session_complete",
                    !.needs_user_input = FALSE]
    ELSE IF found.cards = <<>>
    THEN [st EXCEPT !.messages = Append(@, AIMessage("no flashcards found", 0, 0)),
                    !.retrieved_cards = <<>>,
                    !.session_complete = TRUE,
                    !.current_step = "session_complete",
                    !.needs_user_input = FALSE]
    ELSE [st EXCEPT !.retrieved_cards = found.cards,
                    !.messages = Append(@, AIMessage("found flashcards", Len(found.cards), 0)),
                    !.current_step = "ready_to_ask",
                    !.needs_user_input = FALSE]

\* a slip: every index of the cards
AllIndices(cards, asked_indices) == [k \in 1..Len(cards) |-> k - 1]

\* line 272, [i for i in range(len(cards)) if i not in asked_indices]
UnaskedIndices(cards, asked_indices) ==
    SelectSeq([k \in 1..Len(cards) |-> k - 1],
              LAMBDA i : \A j \in 1..Len(asked_indices) : asked_indices[j] # i)

\* lines 264-337.  asked_indices (line 269) is the list of the state itself,
\* not a copy of it: the append of line 323 is to that list, and line 327
\* takes its length after the append
ask_question(st) ==
    LET cards == st.retrieved_cards
        unasked_indices == UnaskedIndices(cards, st.asked_card_indices)
    IN  IF unasked_indices = <<>>
        THEN [st EXCEPT !.session_complete = TRUE,
                        !.current_step = "session_complete",
                        !.needs_user_input = FALSE,
                        !.messages =
                            Append(@, IF st.session_scores # <<>>
                                      THEN AIMessage("summary", Len(st.session_scores), 0)
                                      ELSE AIMessage("done", 0, 0))]
        ELSE LET next_index == unasked_indices[1]
                 card == cards[next_index + 1]
                 asked_indices == Append(st.asked_card_indices, next_index)
             IN  [st EXCEPT !.current_card = card,
                            !.asked_card_indices = asked_indices,
                            !.messages =
                                Append(@, AIMessage("question", Len(asked_indices) + 1, Len(cards))),
                            !.current_step = "waiting_for_answer",
                            !.needs_user_input = TRUE]

\* what the grading made of the model's response: a score read from its
\* JSON, JSON without a score, or an exception
Graded(kind, score) == [kind |-> kind, score |-> score]

\* line 402, max(1, min(10, score))
ClampScore(score) == IF score < 1 THEN 1 ELSE IF score > 10 THEN 10 ELSE score

\* lines 340-454
grade_answer(st, graded) ==
    LET user_messages == HumanMessages(st)
    IN  IF user_messages = <<>> THEN st
        ELSE IF graded.kind = "raised"
        THEN [st EXCEPT !.user_answer = Last(user_messages).content,
                        !.messages = Append(@, AIMessage("trouble grading", 0, 0)),
                        !.score = 5,
                        !.current_step = "waiting_for_continue",
                        !.needs_user_input = TRUE]
        ELSE LET score == ClampScore(IF graded.kind = "no score" THEN 5 ELSE graded.score)
             IN  [st EXCEPT !.user_answer = Last(user_messages).content,
                            !.score = score,
                            !.session_scores =
                                Append(@, [question |-> st.current_card, score |-> score]),
                            !.messages = Append(@, AIMessage("feedback", score, 10)),
                            !.current_step = "waiting_for_continue",
                            !.needs_user_input = TRUE]

\* what chat_model.invoke of extract_topic returned, stripped, or that it
\* raised
Extracted(kind, topic) == [kind |-> kind, topic |-> topic]
TopicResponses ==
    { Extracted("content", ""), Extracted("content", "mitosis"), Extracted("raised", "") }

\* the search tool returns the cards it found, none when it failed
FoundCards ==
    { Found("raised", <<>>) } \cup { Found("cards", [k \in 1..n |-> k]) : n \in 0..MaxCards }

Gradings ==
    { Graded("raised", 0), Graded("no score", 0),
      Graded("score", 0), Graded("score", 8), Graded("score", 11) }

SessionInit ==
    /\ vcand = NonDict
    /\ vout = NotValidated
    /\ ChunkerInit
    /\ ExtIdle
    /\ PipeIdle
    /\ ModesIdle
    /\ OuterIdle

sessionOthers == <<valVars, chunkerVars, extVars, pipeVars, modesVars,
                   text_content, file_content, upload, search, recoverVars>>

\* ai_messages[-1].content, or the text that stands in for it
LastAIMessage(st, otherwise) ==
    LET ai_messages == SelectSeq(st.messages, LAMBDA m : m.type # "human")
    IN  IF ai_messages # <<>> THEN Last(ai_messages) ELSE otherwise

\* lines 50-71 of routes/chat.py: no state stored for the user, a new one
\* made and the graph invoked with it; the message of the request is not read
NewSession ==
    /\ study.at = "idle"
    /\ study.requests < MaxRequests
    /\ ~study.stored
    /\ study' = [study EXCEPT !.requests = @ + 1,
                              !.state = NewSessionState,
                              !.at = "entry",
                              !.ran = <<>>]
    /\ UNCHANGED sessionOthers

\* lines 97-120: the message appended to the stored state and the graph
\* invoked with it
ContinueSession ==
    /\ study.at = "idle"
    /\ study.requests < MaxRequests
    /\ study.stored
    /\ \E message \in UserMessages :
          /\ ~IsBlank(message)
          /\ study' = [study EXCEPT !.requests = @ + 1,
                                    !.state.messages = Append(@, HumanMessage(message)),
                                    !.at = "entry",
                                    !.ran = <<>>]
    /\ UNCHANGED sessionOthers

\* lines 109-116: a blank message answered without the graph
BlankRequest ==
    /\ study.at = "idle"
    /\ study.requests < MaxRequests
    /\ study.stored
    /\ \E message \in UserMessages :
          /\ IsBlank(message)
          /\ study' = [study EXCEPT
                          !.requests = @ + 1,
                          !.response =
                              ChatResponse(AIMessage("Please send a message.", 0, 0),
                                           FALSE, None,
                                           Len(study.state.retrieved_cards),
                                           Len(study.state.asked_card_indices))]
    /\ UNCHANGED sessionOthers

\* the conditional entry point, lines 562-572
EntryRouter ==
    /\ study.at = "entry"
    /\ study' = [study EXCEPT !.at = entry_router(study.state)]
    /\ UNCHANGED sessionOthers

\* a node run and the conditional edge after it, lines 575-593
Ran(node, st) ==
    [study EXCEPT !.state = st,
                  !.ran = Append(@, node),
                  !.at = route_conversation(st)]

RunGreetUser ==
    /\ study.at = "greet_user"
    /\ study' = Ran("greet_user", greet_user(study.state))
    /\ UNCHANGED sessionOthers

\* an exception of chat_model.invoke (line 189) leaves the node and the graph
RunExtractTopic ==
    /\ study.at = "extract_topic"
    /\ \E r \in TopicResponses :
          study' = IF r.kind = "raised" /\ HumanMessages(study.state) # <<>>
                   THEN [study EXCEPT !.ran = Append(@, "extract_topic"), !.at = "raised"]
                   ELSE Ran("extract_topic", extract_topic(study.state, r.topic))
    /\ UNCHANGED sessionOthers

RunSearchFlashcards ==
    /\ study.at = "search_flashcards"
    /\ \E found \in FoundCards :
          study' = Ran("search_flashcards", search_flashcards_node(study.state, found))
    /\ UNCHANGED sessionOthers

RunAskQuestion ==
    /\ study.at = "ask_question"
    /\ study' = Ran("ask_question", ask_question(study.state))
    /\ UNCHANGED sessionOthers

RunGradeAnswer ==
    /\ study.at = "grade_answer"
    /\ \E graded \in Gradings :
          study' = Ran("grade_answer", grade_answer(study.state, graded))
    /\ UNCHANGED sessionOthers

\* lines 74-94 and 125-146: the result stored and the response made of it
Respond ==
    /\ study.at = END
    /\ study' = [study EXCEPT
                    !.stored = TRUE,
                    !.at = "idle",
                    !.response =
                        ChatResponse(LastAIMessage(study.state,
                                                   AIMessage("I'm processing your request...", 0, 0)),
                                     study.state.session_complete,
                                     study.state.score,
                                     Len(study.state.retrieved_cards),
                                     Len(study.state.asked_card_indices))]
    /\ UNCHANGED sessionOthers

\* lines 148-153: HTTPException(500); user_states keeps the state it held,
\* the message of the request appended to it
RespondError ==
    /\ study.at = "raised"
    /\ study' = [study EXCEPT
                    !.at = "idle",
                    !.response = ChatResponse(AIMessage("HTTPException", 500, 0),
                                              FALSE, None, 0, 0)]
    /\ UNCHANGED sessionOthers

\* reset_study_session, lines 158-168: user_states[user_id] = None
ResetSession ==
    /\ study.at = "idle"
    /\ study.requests < MaxRequests
    /\ study' = [study EXCEPT !.requests = @ + 1,
                              !.stored = FALSE,
                              !.state = NewSessionState]
    /\ UNCHANGED sessionOthers

\* the steps of graph.invoke and of the handler after it
GraphStep ==
    \/ EntryRouter
    \/ RunGreetUser
    \/ RunExtractTopic
    \/ RunSearchFlashcards
    \/ RunAskQuestion
    \/ RunGradeAnswer
    \/ Respond
    \/ RespondError

SessionNext ==
    \/ NewSession
    \/ ContinueSession
    \/ BlankRequest
    \/ ResetSession
    \/ GraphStep

SpecSession == SessionInit /\ [][SessionNext]_vars

\* graph.invoke is a synchronous call of the handler: once begun it runs on
\* until it returns or raises
SpecSessionFair == SpecSession /\ WF_vars(GraphStep)

(***************************************************************************)
(* What the claims speak of                                                *)
(***************************************************************************)
\* the call of extract_qa_pairs_batch that a step makes
ExtractReturns == ncalls' = ncalls + 1

\* the texts of the last call that were in the cache on its entry
WasCached(i) == IsCached(xlast.texts[i], xpre.cache)

\* the position (from 0) of input index i among the uncached texts
PromptPosition(i) == Cardinality({k \in 1..(i - 1) : ~WasCached(k)})

\* the pairs of a candidate list that pass the validator, one by one
RECURSIVE AcceptedOf(_)
AcceptedOf(cands) ==
    IF cands = <<>> THEN <<>>
    ELSE (IF ValidateCandidate(Head(cands)).outcome = "accept"
          THEN <<ValidateCandidate(Head(cands)).pair>> ELSE <<>>)
         \o AcceptedOf(Tail(cands))

NotAccepted(cands) == Len(cands) - Len(AcceptedOf(cands))

\* an exception leaves the loop over the records of this answer
AnswerRaises(resp) ==
    \E k \in 1..Len(resp.segments) :
        LET seg == resp.segments[k]
        IN  /\ seg.kind = "record"
            /\ seg.segment_id # -1
            /\ \/ ~seg.iterable
               \/ \E c \in 1..Len(seg.qa_pairs) :
                      ValidateCandidate(seg.qa_pairs[c]).outcome = "raise"

\* the records of the answer numbered pos that hold an accepted pair
RecordsFor(resp, pos) ==
    SelectSeq(resp.segments,
              LAMBDA seg : /\ seg.kind = "record"
                           /\ seg.segment_id = pos
                           /\ AcceptedOf(seg.qa_pairs) # <<>>)

\* the QA-pair list that the answer gives the segment at prompt position pos
AnswerFor_(resp, pos) ==
    IF resp.kind # "parsed" \/ AnswerRaises(resp) THEN <<>>
    ELSE LET recs == RecordsFor(resp, pos)
         IN  IF recs = <<>> THEN <<>> ELSE AcceptedOf(recs[Len(recs)].qa_pairs)

(***************************************************************************)
(* C1: for every input list (any mix of cached and uncached texts) and     *)
(* every behaviour of the model, extract_qa_pairs_batch returns len(texts) *)
(* entries, none of them the None placeholder; the entry of a cached text  *)
(* is its cached list, and the entry of an uncached text is the list of    *)
(* the record numbered by the text's position among the uncached texts     *)
(* (empty when the answer has none or the batch failed).                   *)
(***************************************************************************)
C1_IndexAligned ==
    xlast.path # "none" =>
        /\ Len(xlast.results) = Len(xlast.texts)
        /\ \A i \in 1..Len(xlast.results) :
            /\ xlast.results[i] # None
            /\ xlast.values[i] =
                 IF WasCached(i)
                 THEN xpre.lists[xpre.cache[CacheKey(xlast.texts[i])]]
                 ELSE AnswerFor_(xlast.resp, PromptPosition(i))

\* a call with a cached text before an uncached one, which got pairs
C1_Witness ==
    /\ xlast.path = "filled"
    /\ \E i, j \in 1..Len(xlast.texts) :
        /\ i < j
        /\ WasCached(i)
        /\ ~WasCached(j)
        /\ xlast.values[j] # <<>>

(***************************************************************************)
(* C2, as claimed: after every return of extract_qa_pairs_batch each       *)
(* segment that was uncached on entry has an entry in qa_cache.            *)
(***************************************************************************)
C2_CachedAfterEveryReturn ==
    [][ExtractReturns =>
         \A j \in 1..Len(xlast'.uncached_texts) :
             IsCached(xlast'.uncached_texts[j], qa_cache')]_vars

(***************************************************************************)
(* C2, amended: after every return of extract_qa_pairs_batch that reached  *)
(* the fill step (the answer parsed to an object with "segments" and its   *)
(* records were processed without an exception), each segment that was     *)
(* uncached on entry has an entry in qa_cache holding its result, valid or *)
(* empty; and no call puts a text into its prompt whose entry is in        *)
(* qa_cache on entry.                                                      *)
(***************************************************************************)
C2_CachedAfterFill ==
    [][ExtractReturns =>
         /\ xlast'.path = "filled" =>
              \A j \in 1..Len(xlast'.uncached_texts) :
                  LET text == xlast'.uncached_texts[j]
                  IN  /\ IsCached(text, qa_cache')
                      /\ \E i \in 1..Len(xlast'.texts) :
                            /\ xlast'.texts[i] = text
                            /\ qa_cache'[CacheKey(text)] = xlast'.results[i]
         /\ \A j \in 1..Len(xlast'.uncached_texts) :
                ~IsCached(xlast'.uncached_texts[j], qa_cache)
         /\ xlast'.invoked = (xlast'.uncached_texts # <<>>)]_vars

\* an empty result was cached, and a later call was served from the cache
\* without the model
C2_Witness ==
    /\ xlast.path = "cached"
    /\ ~xlast.invoked
    /\ \E i, j \in 1..Len(xlast.texts) :
        /\ xlast.values[i] = <<>>
        /\ xlast.values[j] # <<>>

(***************************************************************************)
(* C5, as claimed: an invalid candidate is dropped and counted as one      *)
(* rejection; it never raises and never makes the other candidates of its  *)
(* segment, or the other segments of the batch, lose their valid pairs.    *)
(* So whenever the answer parsed to records with iterable qa_pairs, every  *)
(* uncached segment gets the valid pairs of its record, and the rejections *)
(* counted are the invalid candidates.                                     *)
(***************************************************************************)
RECURSIVE TotalNotAccepted(_)
TotalNotAccepted(segs) ==
    IF segs = <<>> THEN 0
    ELSE NotAccepted(Head(segs).qa_pairs) + TotalNotAccepted(Tail(segs))

WellFormedAnswer(resp) ==
    /\ resp.kind = "parsed"
    /\ \A k \in 1..Len(resp.segments) :
        /\ resp.segments[k].kind = "record"
        /\ resp.segments[k].segment_id # -1
        /\ resp.segments[k].iterable

C5_InvalidCandidateOnlyDropped ==
    (xlast.invoked /\ WellFormedAnswer(xlast.resp)) =>
        /\ xlast.path = "filled"
        /\ xlast.rejected = TotalNotAccepted(xlast.resp.segments)
        /\ \A i \in 1..Len(xlast.texts) :
            ~WasCached(i) =>
                LET recs == RecordsFor(xlast.resp, PromptPosition(i))
                IN  xlast.values[i] =
                        IF recs = <<>> THEN <<>>
                        ELSE AcceptedOf(recs[Len(recs)].qa_pairs)

(***************************************************************************)
(* C6, as claimed: the extraction validator accepts a candidate if and     *)
(* only if it is an object whose question and answer are, after trimming,  *)
(* non-empty strings, the question of at least 5 characters, the answer of *)
(* at least 3, and the answer, whatever its case, none of it, this, that,  *)
(* something, unknown, n/a, none.                                          *)
(***************************************************************************)
ClaimedPlaceholders ==
    { <<"i","t">>, <<"t","h","i","s">>, <<"t","h","a","t">>,
      <<"s","o","m","e","t","h","i","n","g">>,
      <<"u","n","k","n","o","w","n">>, <<"n","/","a">>,
      <<"n","o","n","e">> }

IsText(v) == v.t = "str"

ClaimedValid(qa) ==
    /\ qa.t = "dict"
    /\ IsText(qa.question)
    /\ IsText(qa.answer)
    /\ Len(Strip(qa.question.s)) >= 5
    /\ Len(Strip(qa.answer.s)) >= 3
    /\ Lower(Strip(qa.answer.s)) \notin ClaimedPlaceholders

C6_AcceptIffRule ==
    vout # NotValidated => ((vout.outcome = "accept") <=> ClaimedValid(vcand))

(***************************************************************************)
(* What the claims about a whole call speak of                             *)
(***************************************************************************)
FailPaths == {"exception", "short", "nojson", "unparseable", "badstructure"}

\* the pairs each valid segment got from its batch, as the batch returned them
ReturnedValues == Flatten([k \in 1..Len(tasks) |-> tasks[k].values])

\* the valid segments that got at least one pair, in the order of the document
ProducingSegments ==
    LET idx == SelectSeq([i \in 1..Len(ReturnedValues) |-> i],
                         LAMBDA i : ReturnedValues[i] # <<>>)
    IN  [c \in 1..Len(idx) |-> ValidSegs[idx[c]]]

\* the chunks the call returns, their qa_pairs by value
ReturnedChunks ==
    [c \in 1..Len(final_chunks) |->
        [chunks[final_chunks[c]] EXCEPT !.qa_pairs = lists[@]]]

Called == pc = "done"

(***************************************************************************)
(* C3, as claimed: once the cache holds every text of a batch, calling     *)
(* extract_qa_pairs_batch again with the texts of that batch invokes the   *)
(* model not at all and returns at every index a list equal to the list    *)
(* the first call returned there, whatever ran in between, a merge phase   *)
(* included.                                                               *)
(***************************************************************************)
C3_SecondCallReturnsTheSame ==
    recheck.task # 0 =>
        /\ ~recheck.invoked
        /\ recheck.values = tasks[recheck.task].values

(***************************************************************************)
(* C4: when a batch of a chunk_segments or chunk_segments_async call       *)
(* returns after a failed model call or a failed parse, every uncached     *)
(* index of the batch has an empty result, every cached index the pairs    *)
(* the cache held for it, the call goes on, nothing is cached, and the     *)
(* results of the other batches of the call are what they were.            *)
(***************************************************************************)
FailsNow(k) ==
    /\ tasks[k].state # "done"
    /\ tasks'[k].state = "done"
    /\ tasks'[k].path \in FailPaths

C4_FailureIsolated ==
    [][\A k \in 1..Len(tasks) :
          (pc = "extract" /\ Len(tasks') = Len(tasks) /\ FailsNow(k)) =>
              LET t == tasks'[k]
                  b == BatchBegin(t.texts, qa_cache)
              IN  /\ \A i \in 1..Len(t.texts) :
                        t.values[i] =
                            IF \E j \in 1..Len(t.uncached_indices) : t.uncached_indices[j] = i
                            THEN <<>>
                            ELSE t.pre[i]
                  /\ Len(t.uncached_indices) > 0
                  /\ pc' = "extract"
                  /\ qa_cache' = qa_cache
                  /\ \A j \in 1..Len(tasks) :
                        j # k => /\ tasks'[j] = tasks[j]
                                 /\ Values(tasks[j].results, lists')
                                        = Values(tasks[j].results, lists)]_vars

\* the second batch failed with one of its texts cached by the first, and
\* the first batch keeps the pairs it returned
C4_Witness ==
    /\ Len(tasks) = 2
    /\ tasks[1].state = "done" /\ tasks[1].path = "filled"
    /\ tasks[2].state = "done" /\ tasks[2].path \in FailPaths
    /\ Len(tasks[2].uncached_indices) \in 1..(Len(tasks[2].texts) - 1)
    /\ tasks[2].values[1] # <<>>
    /\ tasks[2].values[2] = <<>>
    /\ Values(tasks[1].results, lists) = tasks[1].values

(***************************************************************************)
(* C7, as claimed: in every chunk a call returns, every pair has a         *)
(* question of at least 5 characters, an answer of at least 3, and an      *)
(* answer that, whatever its case, is none of the placeholders it, this,   *)
(* that, something, unknown, n/a, none.                                    *)
(***************************************************************************)
ClaimedValidPair(p) ==
    /\ Len(p.question) >= min_question_len
    /\ Len(p.answer) >= min_answer_len
    /\ Lower(p.answer) \notin ClaimedPlaceholders

C7_ReturnedPairsValid ==
    Called =>
        \A c \in 1..Len(ReturnedChunks) :
            \A i \in 1..Len(ReturnedChunks[c].qa_pairs) :
                ClaimedValidPair(ReturnedChunks[c].qa_pairs[i])

(***************************************************************************)
(* C8: in both modes the texts of the returned chunks, read from left to   *)
(* right and inside a merged chunk in the order of merging, are the        *)
(* segments that got at least one pair, each once, in the order of the     *)
(* document.                                                               *)
(***************************************************************************)
SegmentsOf(text) == SelectSeq(text, LAMBDA item : item # Sep)

ReturnedSegments ==
    Flatten([c \in 1..Len(ReturnedChunks) |-> SegmentsOf(ReturnedChunks[c].text)])

C8_SegmentOrderKept ==
    Called => ReturnedSegments = Flatten(ProducingSegments)

\* an async call that merged some chunks and kept others, one segment of
\* the document having got no pair
C8_Witness ==
    /\ Called
    /\ mode = "async"
    /\ Len(final_chunks) \in 2..(Len(chunks) - 2)
    /\ Len(ProducingSegments) < Len(ValidSegs)
    /\ Len(SegmentsOf(ReturnedChunks[1].text)) > 1
    /\ ReturnedSegments = Flatten(ProducingSegments)

(***************************************************************************)
(* C9: when fewer than skip_merge_threshold segments got a pair, the call  *)
(* returns the chunks of those segments as they were built, one a segment, *)
(* with no merge batch formed, no merge model call and the merge cache     *)
(* untouched.                                                              *)
(***************************************************************************)
C9_BelowThresholdNoMerge ==
    (Called /\ Len(ProducingSegments) < skip_merge_threshold) =>
        /\ Len(ReturnedChunks) = Len(ProducingSegments)
        /\ \A c \in 1..Len(ReturnedChunks) :
              /\ ReturnedChunks[c].text = ProducingSegments[c]
              /\ ReturnedChunks[c].char_count = TextLen(ProducingSegments[c])
              /\ ReturnedChunks[c].merge_reason = Absent
              /\ ReturnedChunks[c].split_reason = Absent
        /\ [c \in 1..Len(ReturnedChunks) |-> ReturnedChunks[c].qa_pairs]
               = SelectSeq(ReturnedValues, LAMBDA v : v # <<>>)
        /\ mtasks = <<>>
        /\ merge_cache = EmptyMap

\* ten valid segments of which nine got a pair
C9_Witness ==
    /\ Called
    /\ Len(ValidSegs) = skip_merge_threshold
    /\ Len(ProducingSegments) = skip_merge_threshold - 1
    /\ Len(ReturnedChunks) = skip_merge_threshold - 1
    /\ mtasks = <<>>

(***************************************************************************)
(* C10, as claimed: chunk_segments on 12 segments that each got a pair,    *)
(* the merge model answering should_merge = true to every comparison it is *)
(* asked, returns one chunk whose pairs are the pairs of the 12 segments   *)
(* in the order of the document.                                           *)
(***************************************************************************)
AlwaysMerges ==
    \A k \in 1..Len(mtasks) :
        mtasks[k].uncached_indices # <<>> =>
            mtasks[k].resp = MergeResponse("parsed", AllMerge(Len(mtasks[k].uncached_indices)))

C10_TwelveSegmentsOneChunk ==
    (/\ Called
     /\ mode = "sync"
     /\ Len(segments) = 12
     /\ Len(ProducingSegments) = 12
     /\ AlwaysMerges) =>
        /\ Len(ReturnedChunks) = 1
        /\ ReturnedChunks[1].qa_pairs = Flatten(ReturnedValues)

(***************************************************************************)
(* C11, as claimed: when the decisions of a merge batch are applied, a     *)
(* candidate is merged into the tail only if its decision says merge and   *)
(* the chunk it was compared against is still the tail of the result; in   *)
(* every other case it is appended as a chunk of its own with the          *)
(* decision's reason as its split reason.                                  *)
(***************************************************************************)
ClaimedApplyDecision(st, pair, dec) ==
    IF dec.should_merge /\ Last(st.final) = pair[1]
    THEN MergeInto(st, Last(st.final), pair[2], dec.reason)
    ELSE KeepSeparate(st, pair[2], dec.reason)

RECURSIVE ClaimedApplyDecisions(_, _, _)
ClaimedApplyDecisions(st, pairs, decisions) ==
    IF pairs = <<>> THEN st
    ELSE ClaimedApplyDecisions(ClaimedApplyDecision(st, Head(pairs), Head(decisions)),
                               Tail(pairs), Tail(decisions))

Assembled == [chunks |-> chunks, lists |-> lists, final |-> final_chunks]

C11_MergedOnlyIntoComparedTail ==
    [][/\ (pc = "merge" /\ mode = "sync" /\ Len(mtasks') = Len(mtasks) + 1) =>
            Assembled' = ClaimedApplyDecisions(Assembled, Last(mtasks').pairs,
                                               Last(mtasks').decisions)
       /\ (pc = "merge" /\ mode = "async" /\ pc' = "done") =>
            Assembled' = ClaimedApplyDecisions(Assembled,
                            Flatten([k \in 1..Len(mtasks) |-> mtasks[k].pairs]),
                            Flatten([k \in 1..Len(mtasks) |-> mtasks[k].decisions]))
      ]_vars

(***************************************************************************)
(* What the claims about should_merge_chunks_batch speak of                *)
(***************************************************************************)
\* a call of should_merge_chunks_batch returns in this step
MergeReturns == Len(mtasks') = Len(mtasks) + 1

IsUncached(t, i) == \E j \in 1..Len(t.uncached_indices) : t.uncached_indices[j] = i

\* lines 449 and 454-455, on the chunks of a direct call
IsTrivial(pair) ==
    \/ lists[chunks[pair[1]].qa_pairs] = <<>>
    \/ lists[chunks[pair[2]].qa_pairs] = <<>>
    \/ TextLen(chunks[pair[1]].text) + TextLen(chunks[pair[2]].text) > max_chunk_size

KeyOf(pair) == MergeKey(pair, chunks, lists)

(***************************************************************************)
(* C17: a pair of which a chunk has no QA pair, or whose texts together    *)
(* are longer than max_chunk_size, gets a no-merge decision that does not  *)
(* come from merge_cache, is in no prompt, and leaves merge_cache as it    *)
(* is; a call with such pairs only calls no model.                         *)
(***************************************************************************)
C17_TrivialRejection ==
    [][(pc = "idle" /\ MergeReturns) =>
         LET t == Last(mtasks')
             modelKeys == { KeyOf(t.pairs[i]) :
                              i \in { h \in 1..Len(t.pairs) : ~IsTrivial(t.pairs[h]) } }
         IN  /\ \A i \in 1..Len(t.pairs) :
                   IsTrivial(t.pairs[i]) =>
                       /\ ~IsUncached(t, i)
                       /\ t.decisions[i] \in
                              { Decision(FALSE, "One or both chunks are empty"),
                                Decision(FALSE, "Combined size would be too large") }
             /\ \A k \in DOMAIN merge_cache' :
                   k \notin modelKeys => (k \in DOMAIN merge_cache /\ merge_cache'[k] = merge_cache[k])
             /\ \A k \in DOMAIN merge_cache : k \in DOMAIN merge_cache'
             /\ (\A i \in 1..Len(t.pairs) : IsTrivial(t.pairs[i])) =>
                   (t.resp = NoMergeResponse /\ merge_cache' = merge_cache)
      ]_vars

\* the pair of chunks 4 and 2 rejected for its size in a call that found
\* its key in the cache with a merge decision, next to an empty pair
C17_Witness ==
    /\ pc = "idle"
    /\ Len(mtasks) = 2
    /\ mtasks[2].pairs = << <<3, 2>>, <<1, 2>>, <<4, 2>> >>
    /\ mtasks[2].resp = NoMergeResponse
    /\ KeyOf(<<4, 2>>) \in DOMAIN merge_cache
    /\ merge_cache[KeyOf(<<4, 2>>)].should_merge
    /\ mtasks[2].decisions[1] = Decision(FALSE, "One or both chunks are empty")
    /\ mtasks[2].decisions[2].should_merge
    /\ mtasks[2].decisions[3] = Decision(FALSE, "Combined size would be too large")

(***************************************************************************)
(* C18: when the merge model raises, its answer does not parse, has no     *)
(* comparisons field, or holds no decision for a pair, the call returns,   *)
(* the pairs affected get a no-merge decision, and the list returned has   *)
(* one decision for each pair of the input, in its order.                  *)
(***************************************************************************)
HasDecisionFor(resp, j) ==
    /\ resp.kind = "parsed"
    /\ \E c \in 1..Len(resp.comparisons) : resp.comparisons[c].comparison_id = j - 1

C18_MergeFailureKeepsApart ==
    \A c \in 1..Len(mtasks) :
        LET t == mtasks[c]
        IN  (pc = "idle" /\ t.state = "done") =>
              /\ Len(t.decisions) = Len(t.pairs)
              /\ \A i \in 1..Len(t.pairs) :
                    /\ t.decisions[i] # NoDecision
                    /\ ~IsUncached(t, i) => t.decisions[i] = t.init[i]
              /\ \A j \in 1..Len(t.uncached_indices) :
                    ~HasDecisionFor(t.resp, j) =>
                        ~t.decisions[t.uncached_indices[j]].should_merge

\* an answer that leaves out the first of two pairs, in a call that has a
\* rejected pair before them; and a call whose model raised
C18_Witness ==
    /\ pc = "idle"
    /\ Len(mtasks) = 2
    /\ mtasks[1].resp.kind = "raise"
    /\ ~mtasks[1].decisions[1].should_merge
    /\ mtasks[2].pairs = << <<6, 2>>, <<5, 2>> >>
    /\ mtasks[2].resp = MergeResponse("parsed", Without(AllMerge(2), 1))
    /\ mtasks[2].decisions = <<Decision(FALSE, "Unknown"), Decision(TRUE, "same topic")>>

(***************************************************************************)
(* C19: after a call, merge_cache holds under the key of every pair the    *)
(* call asked the model about (the hash of the first 3 questions, or       *)
(* fewer, of its two chunks) a decision the call returned for a pair of    *)
(* that key; a pair that is not rejected at once and whose key is in       *)
(* merge_cache when the call begins is in no prompt and gets the decision  *)
(* stored.                                                                 *)
(***************************************************************************)
C19_DecisionsCachedByKey ==
    [][(pc = "idle" /\ MergeReturns) =>
         LET t == Last(mtasks')
         IN  /\ \A i \in 1..Len(t.pairs) :
                   IsUncached(t, i) =>
                       /\ KeyOf(t.pairs[i]) \in DOMAIN merge_cache'
                       /\ \E h \in 1..Len(t.pairs) :
                             /\ IsUncached(t, h)
                             /\ KeyOf(t.pairs[h]) = KeyOf(t.pairs[i])
                             /\ merge_cache'[KeyOf(t.pairs[i])] = t.decisions[h]
             /\ \A i \in 1..Len(t.pairs) :
                   (~IsTrivial(t.pairs[i]) /\ KeyOf(t.pairs[i]) \in DOMAIN merge_cache) =>
                       /\ ~IsUncached(t, i)
                       /\ t.decisions[i] = merge_cache[KeyOf(t.pairs[i])]
      ]_vars

\* the decision about chunks 5 and 2, a default after the model raised,
\* given in a later call to chunks 6 and 2, which have the same first 3
\* questions, with no model call
C19_Witness ==
    /\ pc = "idle"
    /\ Len(mtasks) = 2
    /\ mtasks[1].pairs = << <<5, 2>> >>
    /\ mtasks[1].resp.kind = "raise"
    /\ mtasks[2].pairs = << <<6, 2>>, <<5, 2>> >>
    /\ mtasks[2].resp = NoMergeResponse
    /\ mtasks[2].source = <<"cached", "cached">>
    /\ mtasks[2].decisions[1] = mtasks[1].decisions[1]
    /\ merge_cache[KeyOf(<<6, 2>>)] = mtasks[1].decisions[1]

(***************************************************************************)
(* C14.  Two batches of an async call race on a text when both find it     *)
(* uncached, so that both put it in a prompt.                              *)
(***************************************************************************)
PositionsOf(t, text) ==
    { i \in 1..Len(t.texts) : t.texts[i] = text /\ \E j \in 1..Len(t.uncached_indices) :
                                                      t.uncached_indices[j] = i }

Raced(k1, k2, text) ==
    /\ mode = "async"
    /\ pc = "extract"
    /\ k1 # k2
    /\ tasks[k1].state = "done"
    /\ tasks[k2].state = "done"
    /\ PositionsOf(tasks[k1], text) # {}
    /\ PositionsOf(tasks[k2], text) # {}

\* the pair passed the validator of the extraction and is about the text
ValidatedFor(p, text) ==
    /\ Len(p.question) >= min_question_len
    /\ Len(p.answer) >= min_answer_len
    /\ Lower(p.answer) \notin ChunkerPlaceholders
    /\ p.question = Strip(QuestionFor(text))

BatchResultSound(t) ==
    /\ Len(t.values) = Len(t.texts)
    /\ \A i \in 1..Len(t.texts) :
          \A h \in 1..Len(t.values[i]) : ValidatedFor(t.values[i][h], t.texts[i])

ResultsFor(k1, k2, text) ==
    { tasks[k1].values[i] : i \in PositionsOf(tasks[k1], text) }
    \cup { tasks[k2].values[i] : i \in PositionsOf(tasks[k2], text) }

(***************************************************************************)
(* C14, as claimed: after two batches of an async call raced on a text,    *)
(* each has returned one list for each of its segments, made of validated  *)
(* pairs about that segment, and the cache holds for the text one of the   *)
(* results the two batches returned for it.                                *)
(***************************************************************************)
C14_RaceLeavesCacheFilled ==
    \A k1, k2 \in 1..Len(tasks) : \A i \in 1..Len(segments) :
        Raced(k1, k2, segments[i]) =>
            /\ BatchResultSound(tasks[k1])
            /\ BatchResultSound(tasks[k2])
            /\ IsCached(segments[i], qa_cache)
            /\ lists[qa_cache[CacheKey(segments[i])]] \in ResultsFor(k1, k2, segments[i])

(***************************************************************************)
(* C14, amended: ... and the cache holds for the text one of the results   *)
(* the two batches returned for it if one of them reached the fill step;   *)
(* if both failed it holds no entry for the text.                          *)
(***************************************************************************)
C14_RaceLeavesCacheSound ==
    \A k1, k2 \in 1..Len(tasks) : \A i \in 1..Len(segments) :
        Raced(k1, k2, segments[i]) =>
            /\ BatchResultSound(tasks[k1])
            /\ BatchResultSound(tasks[k2])
            /\ tasks[k1].resp # NoResponse
            /\ tasks[k2].resp # NoResponse
            /\ IF tasks[k1].path = "filled" \/ tasks[k2].path = "filled"
               THEN /\ IsCached(segments[i], qa_cache)
                    /\ lists[qa_cache[CacheKey(segments[i])]]
                           \in ResultsFor(k1, k2, segments[i])
               ELSE ~IsCached(segments[i], qa_cache)

\* the two batches raced on the text of segments 1 and 9, returned
\* different lists for it, and the cache holds the list of the second
C14_Witness ==
    /\ Len(segments) >= 9
    /\ segments[9] = segments[1]
    /\ Raced(1, 2, segments[1])
    /\ tasks[1].path = "filled"
    /\ tasks[2].path = "filled"
    /\ tasks[1].values[1] # tasks[2].values[1]
    /\ tasks[2].values[1] # <<>>
    /\ lists[qa_cache[CacheKey(segments[1])]] = tasks[2].values[1]

(***************************************************************************)
(* C15: in an async call no chunk is built, no merge pair formed, no merge *)
(* batch dispatched and nothing read from or stored in merge_cache before  *)
(* every extraction batch of the call has returned.                        *)
(***************************************************************************)
C15_MergeAfterExtraction ==
    (/\ mode = "async"
     /\ \/ pc \in {"merge", "done"}
        \/ chunks # <<>>
        \/ mtasks # <<>>
        \/ merge_cache # EmptyMap) =>
        \A k \in 1..Len(tasks) : tasks[k].state = "done"

\* two merge batches on their threads after two extraction batches
C15_Witness ==
    /\ mode = "async"
    /\ pc = "merge"
    /\ Len(tasks) = 2
    /\ \A k \in 1..Len(tasks) : tasks[k].state = "done"
    /\ Len(mtasks) = 2
    /\ mtasks[1].state = "running"
    /\ mtasks[2].state = "running"

(***************************************************************************)
(* C20: in both modes no segment shorter than min_chunk_size is among the  *)
(* texts of a call of extract_qa_pairs_batch, in a prompt, or in the text  *)
(* of a chunk that is built or returned.                                   *)
(***************************************************************************)
LongEnough(text) == TextLen(text) >= min_chunk_size

C20_ShortSegmentsExcluded ==
    /\ \A k \in 1..Len(tasks) :
          /\ \A i \in 1..Len(tasks[k].texts) : LongEnough(tasks[k].texts[i])
          /\ \A i \in 1..Len(tasks[k].uncached_texts) : LongEnough(tasks[k].uncached_texts[i])
    /\ \A c \in 1..Len(chunks) :
          \A i \in 1..Len(SegmentsOf(chunks[c].text)) :
              LongEnough(<<SegmentsOf(chunks[c].text)[i]>>)

\* a merged document of which one segment was too short
C20_Witness ==
    /\ Called
    /\ \E i \in 1..Len(segments) : ~LongEnough(segments[i])
    /\ Len(ValidSegs) = Len(segments) - 1
    /\ Len(ReturnedChunks) \in 1..(Len(chunks) - 1)
    /\ Len(chunks) >= skip_merge_threshold

(***************************************************************************)
(* What the claims about two calls speak of                                *)
(***************************************************************************)
\* the second call has returned
BothCalled == Called /\ earlier # NoEarlier

(***************************************************************************)
(* C12, as claimed: for the same segments, chunkers with empty caches and  *)
(* a model that answers by rules, chunk_segments_async returns the chunks  *)
(* chunk_segments returns: the same texts, pairs, merge and split reasons. *)
(***************************************************************************)
C12_AsyncReturnsWhatSyncReturns ==
    (BothCalled /\ earlier.mode = "sync") => ReturnedChunks = earlier.out

(***************************************************************************)
(* C13, as claimed: in an async call, in whatever order the extraction     *)
(* batches return, the list of segment i holds the pairs made for segment  *)
(* i, and what the call returns is what it returns for any other order.    *)
(***************************************************************************)
AssembledByPosition ==
    /\ Len(ReturnedValues) = Len(ValidSegs)
    /\ \A i \in 1..Len(ValidSegs) :
          \A h \in 1..Len(ReturnedValues[i]) :
              ReturnedValues[i][h].question = Strip(QuestionFor(ValidSegs[i]))

C13_CompletionOrderIrrelevant ==
    /\ (mode = "async" /\ pc = "extract" /\ Gathered(tasks)) => AssembledByPosition
    /\ (BothCalled /\ earlier.mode = "async") => ReturnedChunks = earlier.out

(***************************************************************************)
(* C16: in an async call at most max_workers batches, extraction and merge *)
(* batches together, are with the model at any moment.                     *)
(***************************************************************************)
InFlight ==
    Cardinality({ k \in 1..Len(tasks) : tasks[k].state = "running" })
    + Cardinality({ k \in 1..Len(mtasks) : mtasks[k].state = "running" })

C16_AtMostThreeInFlight ==
    mode = "async" => InFlight <= 3

\* three merge batches with the model while a fourth waits for a thread
C16_Witness ==
    /\ mode = "async"
    /\ pc = "merge"
    /\ InFlight = 3
    /\ \E k \in 1..Len(mtasks) : mtasks[k].state = "new"
    /\ Len(tasks) = MaxBatches

(***************************************************************************)
(* What the claims about the model calls of a batch speak of               *)
(***************************************************************************)
\* the texts of batch t that have no entry in the cache
NotInCache(t, cache) == SelectSeq(t.texts, LAMBDA x : ~IsCached(x, cache))

\* batch k enters extract_qa_pairs_batch in this step
Enters(k) ==
    /\ k <= Len(tasks')
    /\ tasks[k].state = "new"
    /\ tasks'[k].state # "new"

\* the model has been invoked for batch t: its answer is held
Invoked(t) == t.resp # NoResponse

(***************************************************************************)
(* C27: a batch of chunk_segments or chunk_segments_async invokes the      *)
(* model at most once; the prompt holds exactly the segments of the batch  *)
(* that had no cache entry when the batch was entered, never more than     *)
(* batch_size of them; a batch whose segments are all cached returns       *)
(* without invoking the model; a batch that has returned stays as it is.   *)
(***************************************************************************)
C27_OneCallPerBatch ==
    [][\A k \in 1..Len(tasks) :
          /\ Enters(k) =>
                /\ tasks'[k].uncached_texts = NotInCache(tasks[k], qa_cache)
                /\ Len(tasks'[k].uncached_texts) <= batch_size
                /\ Len(tasks[k].texts) <= batch_size
                /\ (tasks'[k].state = "running") => ~Invoked(tasks'[k])
                /\ (tasks'[k].uncached_texts = <<>>) =>
                      (tasks'[k].state = "done" /\ ~Invoked(tasks'[k]))
          /\ (tasks[k].state = "running" /\ k <= Len(tasks') /\ pc' = pc) =>
                /\ tasks'[k].uncached_texts = tasks[k].uncached_texts
                /\ tasks'[k].state = "done" => Invoked(tasks'[k])
          /\ (tasks[k].state = "done" /\ pc # "done") =>
                (k <= Len(tasks') /\ tasks'[k] = tasks[k])
      ]_vars

\* a sync call whose second batch found one of its segments in the cache
\* and sent the others, and only them, to the model
C27_Witness ==
    /\ mode = "sync"
    /\ Len(tasks) = 2
    /\ tasks[2].state = "done"
    /\ Invoked(tasks[2])
    /\ Len(tasks[2].uncached_texts) = Len(tasks[2].texts) - 1
    /\ Len(tasks[1].uncached_texts) = batch_size

(***************************************************************************)
(* What the claims about the merged chunks speak of                        *)
(***************************************************************************)
\* chunk c of the output was produced by one or more merges
IsMerged(c) == c.merge_reason # Absent

(***************************************************************************)
(* C28, as claimed: no chunk of the output of chunk_segments or            *)
(* chunk_segments_async that was produced by one or more merges has a      *)
(* char_count greater than max_chunk_size, whatever the merge decisions.   *)
(***************************************************************************)
C28_MergedChunkWithinMax ==
    Called =>
        \A c \in 1..Len(ReturnedChunks) :
            IsMerged(ReturnedChunks[c]) =>
                ReturnedChunks[c].char_count <= max_chunk_size

(***************************************************************************)
(* C29, as claimed: whenever a merge is applied, the text and the pairs of *)
(* the tail at that moment are those of the chunk the decision and its     *)
(* size check were computed on.  st0 is what the decisions of the batch    *)
(* were computed on, st what the earlier decisions have made of it.        *)
(***************************************************************************)
SameAsComputedOn(st, tail, st0, compared) ==
    /\ st.chunks[tail].text = st0.chunks[compared].text
    /\ st.lists[st.chunks[tail].qa_pairs] = st0.lists[st0.chunks[compared].qa_pairs]

RECURSIVE MergesOnComputedTail(_, _, _, _)
MergesOnComputedTail(st, pairs, decisions, st0) ==
    IF pairs = <<>> THEN TRUE
    ELSE /\ (Head(decisions).should_merge /\ StillTail(st, Head(pairs)[1])) =>
                SameAsComputedOn(st, Last(st.final), st0, Head(pairs)[1])
         /\ MergesOnComputedTail(ApplyDecision(st, Head(pairs), Head(decisions)),
                                 Tail(pairs), Tail(decisions), st0)

C29_MergeAppliedToComparedVersion ==
    [][/\ (pc = "merge" /\ mode = "sync" /\ Len(mtasks') = Len(mtasks) + 1) =>
            MergesOnComputedTail(Assembled, Last(mtasks').pairs,
                                 Last(mtasks').decisions, Assembled)
       /\ (pc = "merge" /\ mode = "async" /\ pc' = "done") =>
            MergesOnComputedTail(Assembled,
                Flatten([k \in 1..Len(mtasks) |-> mtasks[k].pairs]),
                Flatten([k \in 1..Len(mtasks) |-> mtasks[k].decisions]),
                Assembled)
      ]_vars

(***************************************************************************)
(* C30, as claimed: the flattened pairs of the chunks a call returns       *)
(* (get_all_qa_pairs) are the concatenation, in segment order, of the      *)
(* lists the batches returned for the segments: no pair lost, none twice,  *)
(* also when a segment text occurs more than once in the document.         *)
(***************************************************************************)
C30_FlattenedPairsAreTheExtracted ==
    Called => get_all_qa_pairs(ReturnedChunks) = Flatten(ReturnedValues)

(***************************************************************************)
(* What the claims about chunk_text speak of                               *)
(***************************************************************************)
\* item h of the text lies in a blank line: in a run of white space that
\* begins and ends with a newline
InBlankLine(t, h) ==
    \E i \in 1..h, j \in h..Len(t) :
        /\ i < j
        /\ t[i] = Newline
        /\ t[j] = Newline
        /\ \A g \in i..j : IsWhite(t[g])

\* the paragraphs of a text: what stands between blank lines, without the
\* white space around it, in the order of the text
ParagraphsOf(t) ==
    LET starts == { i \in 1..Len(t) :
                      ~InBlankLine(t, i) /\ (i = 1 \/ InBlankLine(t, i - 1)) }
        EndOf(i) == Max({ j \in i..Len(t) : \A h \in i..j : ~InBlankLine(t, h) })
        Nth(k) == CHOOSE i \in starts : Cardinality({ j \in starts : j < i }) = k - 1
    IN  StrippedNonEmpty([k \in 1..Cardinality(starts) |-> SubSeq(t, Nth(k), EndOf(Nth(k)))])

\* the model returned one valid pair for each segment of each prompt
OnePairPerSegment ==
    \A k \in 1..Len(tasks) :
        Invoked(tasks[k]) =>
            tasks[k].resp = Response("parsed", GoodSegments(tasks[k].uncached_texts))

\* the merge batches that went to the model
MergeCalls == { k \in 1..Len(mtasks) : mtasks[k].resp # NoMergeResponse }

ThreeChunksThreePairs ==
    /\ Len(ReturnedChunks) = 3
    /\ Len(get_all_qa_pairs(ReturnedChunks)) = 3
    /\ MergeCalls = {}

Finished == upload.pc \in {"raised", "returned"}

\* a valid pair remains for the document as a whole
ValidPairLeft ==
    \E c \in 1..Len(ReturnedChunks) :
        \E i \in 1..Len(ReturnedChunks[c].qa_pairs) :
            ClaimedValidPair(ReturnedChunks[c].qa_pairs[i])

DocumentFailure == ~file_content.decodes \/ ~ValidPairLeft

\* an extraction batch or a merge batch of the call failed
SomeBatchFailed ==
    \/ \E k \in 1..Len(tasks) : tasks[k].path \in FailPaths
    \/ \E k \in 1..Len(mtasks) : mtasks[k].resp.kind \in {"raise", "unparseable"}

C26_TimeoutOrErrorGivesEmpty ==
    /\ (search.pc = "returned" /\ search.how \in {"timeout", "exception"}) =>
            (search.out = <<>> /\ ~search.raised)
    /\ (search.pc = "waiting" /\ search.job \in {"queued", "running"}) =>
            search.waited <= search_timeout

\* the wait timed out while the job was still running, and the job ended
\* with cards after the tool had returned
C26_Witness ==
    /\ search.pc = "returned"
    /\ search.how = "timeout"
    /\ search.waited = search_timeout
    /\ search.job = "done"
    /\ search.cards # <<>>
    /\ search.out = <<>>

(***************************************************************************)
(* What the claims about the recovery of a response speak of               *)
(***************************************************************************)
\* a parsed value written out without white space
RECURSIVE Shown(_)
Shown(v) ==
    IF v.t = "object"
    THEN <<"{">> \o JoinedBy([m \in 1..Len(v.v) |->
                                 Quoted(v.v[m][1]) \o <<":">> \o Shown(v.v[m][2])], <<",">>)
           \o <<"}">>
    ELSE IF v.t = "array"
    THEN <<"[">> \o JoinedBy([e \in 1..Len(v.v) |-> Shown(v.v[e])], <<",">>) \o <<"]">>
    ELSE IF v.t = "string" THEN Quoted(v.v)
    ELSE v.v

IsCloser(c) == c \in {"}", "]"}

\* what the response lacks of its document
CutOff(r) == SubSeq(r.document, r.kept + 1, Len(r.document))
MissingClosers(r) == Cardinality({ i \in 1..Len(CutOff(r)) : IsCloser(CutOff(r)[i]) })

\* the response is a well-formed document without its last closing
\* brackets: what is cut off holds closing brackets, at least one, and the
\* white space between them
LacksClosersOnly(r) ==
    /\ r.fence = "none"
    /\ Loads(r.document).ok
    /\ MissingClosers(r) >= 1
    /\ \A i \in 1..Len(CutOff(r)) : IsCloser(CutOff(r)[i]) \/ IsSpace(CutOff(r)[i])

\* C22: _repair_incomplete_json, called on a well-formed document that lacks
\* exactly its last N closing brackets, N >= 1, returns a text that
\* json.loads parses.
C22_SoftRepairParses ==
    recovered.soft.done /\ LacksClosersOnly(reply) => Loads(recovered.soft.text).ok

\* position i of document d lies inside a string
InString(d, i) == Cardinality({ j \in 1..(i - 1) : d[j] = "\"" }) % 2 = 1

\* the brackets open after position i
Depth(d, i) ==
    Cardinality({ j \in 1..i : d[j] \in {"{", "["} /\ ~InString(d, j) })
    - Cardinality({ j \in 1..i : IsCloser(d[j]) /\ ~InString(d, j) })

\* where the per-segment records of d begin and end: the objects in the
\* array of the root object
RecordStarts(d) == { i \in 1..Len(d) : d[i] = "{" /\ ~InString(d, i) /\ Depth(d, i) = 3 }
RecordEnds(d) == { i \in 1..Len(d) : d[i] = "}" /\ ~InString(d, i) /\ Depth(d, i) = 2 }

\* the records the response holds whole, and those it holds the beginning of
CompleteRecords(r) == Cardinality({ e \in RecordEnds(r.document) : e <= r.kept })
BegunRecords(r) == Cardinality({ b \in RecordStarts(r.document) : b <= r.kept })

\* the response is a document cut in the middle of its k-th record
CutInRecord(r, k) ==
    /\ r.fence = "none"
    /\ r.document \in JsonDocuments
    /\ BegunRecords(r) = k
    /\ CompleteRecords(r) = k - 1

\* the records an outcome hands on to lines 211-225; none after a failure
RecordsHandedOn(o) ==
    IF o.kind = "parsed" THEN Shown(ValueAt(o.result, SegmentsName)) ELSE <<"[", "]">>

\* the first n records of document d
LeadingRecords(d, n) == Shown(JArray(SubSeq(ValueAt(Loads(d).v, SegmentsName).v, 1, n)))

\* C23: from a response cut in the middle of its k-th record, lines 148-209
\* recover the k-1 complete records before it, and nothing of record k and
\* the records after it.
C23_LeadingRecordsRecovered ==
    \A k \in 1..MaxRecords :
        recovered.full.done /\ CutInRecord(reply, k)
            => RecordsHandedOn(recovered.full.outcome) = LeadingRecords(reply.document, k - 1)

\* what a recovery hands on to the lines after it: the parsed dict, or
\* nothing after any of the failures
HandedOn(o) == IF o.kind = "parsed" THEN Shown(o.result) ELSE <<>>

\* the response is a whole well-formed document between two fence lines
IsFenced(r) ==
    /\ r.fence \in FenceKinds
    /\ r.kept = Len(r.document)
    /\ Loads(r.document).ok

\* C24: a response that is a balanced document D between a leading fence
\* line, with or without the json tag, and a trailing fence line, with
\* white space around them, is recovered to the same parsed structure as
\* the response that is D alone.
C24_FenceMakesNoDifference ==
    recovered.full.done /\ IsFenced(reply)
        => HandedOn(recovered.full.outcome) = HandedOn(Recover(reply.document, MaxRecords))

C24_Witness ==
    /\ recovered.full.done
    /\ IsFenced(reply)
    /\ reply.fence = "json padded"
    /\ Find(reply.document, "\n") # 0
    /\ recovered.full.outcome.kind = "parsed"
    /\ Len(ValueAt(recovered.full.outcome.result, SegmentsName).v) = MaxRecords
    /\ Shown(recovered.full.outcome.result) = Shown(Loads(reply.document).v)

(***************************************************************************)
(* What the claims about the caches during assembly speak of               *)
(***************************************************************************)
\* a step builds segment_chunks or applies merge decisions
Assembles == chunks' # chunks \/ final_chunks' # final_chunks

\* the list qa_cache holds under key k, by value
CachedPairs(cache, heap, k) == heap[cache[k]]

(***************************************************************************)
(* C31, as claimed: building the segment chunks and applying merges leave  *)
(* every entry of qa_cache and the list it holds as they were, so that a   *)
(* lookup after the merge phase gives the list that was stored.            *)
(***************************************************************************)
C31_AssemblyLeavesCacheValues ==
    [][Assembles =>
          \A k \in DOMAIN qa_cache :
              /\ k \in DOMAIN qa_cache'
              /\ CachedPairs(qa_cache', lists', k) = CachedPairs(qa_cache, lists, k)]_vars

(***************************************************************************)
(* What the claims about the merges of a parallel call speak of            *)
(***************************************************************************)
\* the candidate pairs of the call and their decisions, in order
AllPairs == Flatten([k \in 1..Len(mtasks) |-> mtasks[k].pairs])
AllDecisions == Flatten([k \in 1..Len(mtasks) |-> mtasks[k].decisions])

\* the candidates that are decided not to merge
NotMerged == { j \in 1..Len(AllDecisions) : ~AllDecisions[j].should_merge }
FirstNotMerged == CHOOSE j \in NotMerged : \A i \in NotMerged : j <= i

\* a parallel call has applied the decisions of its merge phase
AppliedAsync == pc = "done" /\ mode = "async" /\ mtasks # <<>>

\* chunk c is in the output as it was built from its segment
OnItsOwn(c) ==
    /\ \E p \in 1..Len(final_chunks) : final_chunks[p] = c
    /\ chunks[c].merge_reason = Absent
    /\ \E s \in 1..Len(ValidSegs) : chunks[c].text = ValidSegs[s]

(***************************************************************************)
(* C32: in a call of chunk_segments_async every candidate pair is formed   *)
(* with the first segment chunk, and from the first candidate that is not  *)
(* merged on every chunk is returned on its own, whatever its decision.    *)
(***************************************************************************)
C32_NoMergeAfterFirstSplit ==
    /\ mode = "async" =>
          \A k \in 1..Len(mtasks) : \A j \in 1..Len(mtasks[k].pairs) :
              mtasks[k].pairs[j][1] = 1
    /\ AppliedAsync /\ NotMerged # {} =>
          /\ \A j \in FirstNotMerged..Len(AllPairs) : OnItsOwn(AllPairs[j][2])
          /\ Len(final_chunks) = 1 + Len(AllPairs) - FirstNotMerged + 1

C32_Witness ==
    /\ AppliedAsync
    /\ NotMerged # {}
    /\ FirstNotMerged > 1
    /\ \E j \in (FirstNotMerged + 1)..Len(AllDecisions) : AllDecisions[j].should_merge
    /\ chunks[1].merge_reason # Absent

(***************************************************************************)
(* What the claims about failures and the caches speak of                  *)
(***************************************************************************)
\* the merge model raised, or its answer did not parse or has no
\* comparisons field
FailedAnswer(resp) == resp.kind \in {"raise", "unparseable", "nocomparisons"}

\* the decisions the code fills in after such an answer
FailureDefaults ==
    { Decision(FALSE, "Error analyzing chunks"), Decision(FALSE, "Parse error") }

\* merge_cache holds a failure default under key k
HoldsDefault(mcache, k) == k \in DOMAIN mcache /\ mcache[k] \in FailureDefaults

\* clear_cache runs in this step
Clears == qa_cache' = EmptyMap /\ merge_cache' = EmptyMap /\ ncalls' = ncalls /\ mtasks' = mtasks

(***************************************************************************)
(* C33: a no-merge decision given as the default after a failure of the    *)
(* merge model is stored in merge_cache like a computed one: every later   *)
(* pair of that key gets no-merge without a model call, and the entry      *)
(* stays until clear_cache; a failed batch of extract_qa_pairs_batch       *)
(* stores nothing in qa_cache.                                             *)
(***************************************************************************)
C33_FailureDefaultsAreCached ==
    [][/\ (MergeReturns /\ FailedAnswer(Last(mtasks').resp)) =>
             \A j \in 1..Len(Last(mtasks').keys) :
                 HoldsDefault(merge_cache', Last(mtasks').keys[j])
       /\ MergeReturns =>
             \A i \in 1..Len(Last(mtasks').pairs) :
                 HoldsDefault(merge_cache, KeyOf(Last(mtasks').pairs[i])) =>
                     /\ ~IsUncached(Last(mtasks'), i)
                     /\ ~Last(mtasks').decisions[i].should_merge
       /\ \A k \in DOMAIN merge_cache :
             HoldsDefault(merge_cache, k) =>
                 \/ Clears
                 \/ k \in DOMAIN merge_cache' /\ merge_cache'[k] = merge_cache[k]
       /\ (ExtractReturns /\ xlast'.path \in FailPaths) =>
             /\ xlast'.invoked
             /\ qa_cache' = qa_cache
      ]_vars

\* an extraction call that failed and left qa_cache empty, then a merge call
\* that failed and left its default under the key of its pair
C33_Witness ==
    /\ ncalls = 1
    /\ xlast.path = "unparseable"
    /\ xlast.uncached_texts # <<>>
    /\ qa_cache = EmptyMap
    /\ Len(mtasks) = 1
    /\ mtasks[1].pairs = << <<1, 2>> >>
    /\ mtasks[1].resp.kind = "nocomparisons"
    /\ merge_cache = Put(EmptyMap, KeyOf(<<1, 2>>), Decision(FALSE, "Parse error"))

\* the separators in a text: the merges that made it
Separators(text) == Cardinality({ i \in 1..Len(text) : text[i] = Sep })

\* the characters of the segments in a text
RECURSIVE SegmentChars(_)
SegmentChars(text) ==
    IF text = <<>> THEN 0
    ELSE (IF Head(text) = Sep THEN 0 ELSE Head(text)[2]) + SegmentChars(Tail(text))

(***************************************************************************)
(* C34: every chunk of chunk_segments and chunk_segments_async, unmerged   *)
(* or merged any number of times, has as char_count the length of its      *)
(* text: the characters of its segments and the two characters of the      *)
(* separator of every merge.                                               *)
(***************************************************************************)
C34_CharCountIsTextLength ==
    pc \in {"merge", "done"} =>
        \A c \in 1..Len(chunks) :
            /\ chunks[c].char_count = TextLen(chunks[c].text)
            /\ chunks[c].char_count = SegmentChars(chunks[c].text) + 2 * Separators(chunks[c].text)
            /\ (chunks[c].merge_reason = Absent) = (Separators(chunks[c].text) = 0)

\* a call that has merged three segments or more into a chunk
C34_Witness ==
    /\ Called
    /\ mode = "sync"
    /\ Len(final_chunks) >= 2
    /\ \E p \in 1..Len(final_chunks) :
          /\ Separators(chunks[final_chunks[p]].text) >= 2
          /\ chunks[final_chunks[p]].char_count
                = SegmentChars(chunks[final_chunks[p]].text)
                  + 2 * Separators(chunks[final_chunks[p]].text)
    /\ \E p \in 1..Len(final_chunks) : chunks[final_chunks[p]].merge_reason = Absent

(***************************************************************************)
(* What the claims about the segments speak of                             *)
(***************************************************************************)
\* the segments the call has handed to extraction, batch after batch
Submitted == Flatten([k \in 1..Len(tasks) |-> tasks[k].texts])

(***************************************************************************)
(* C35: every segment that the pipeline submits to extraction has a length *)
(* between min_chunk_size and max_chunk_size inclusive, for every input    *)
(* text, list paragraphs and oversized paragraphs split into sentences     *)
(* included.                                                               *)
(***************************************************************************)
C35_SubmittedWithinBounds ==
    \A i \in 1..Len(Submitted) :
        /\ TextLen(Submitted[i]) >= min_chunk_size
        /\ TextLen(Submitted[i]) <= max_chunk_size

\* at item i of the text a list marker begins: a bullet, a dash or an
\* asterisk, or a number followed by a dot
MarkerAt(t, i) ==
    \/ t[i] = Dash
    \/ \E j \in (i + 1)..Len(t) : t[j] = Dot /\ \A h \in i..(j - 1) : t[h] = Digit

\* a paragraph whose first line starts with a list marker
ListParagraph(para) == para # <<>> /\ MarkerAt(para, 1)

\* the list items of a paragraph: from a line that starts with a list
\* marker up to the next such line, in the order of the paragraph
ItemsOf(para) ==
    LET starts == { i \in 1..Len(para) :
                      MarkerAt(para, i) /\ (i = 1 \/ para[i - 1] = Newline) }
        Nth(k) == CHOOSE i \in starts : Cardinality({ j \in starts : j < i }) = k - 1
        EndOf(k) == IF k = Cardinality(starts) THEN Len(para) ELSE Nth(k + 1) - 1
    IN  [k \in 1..Cardinality(starts) |-> StripText(SubSeq(para, Nth(k), EndOf(k)))]

\* the segments of a text whose list paragraphs are split into their items
ListsSplit(t) ==
    LET paragraphs == ParagraphsOf(t)
    IN  Flatten([k \in 1..Len(paragraphs) |->
                   IF ListParagraph(paragraphs[k]) THEN ItemsOf(paragraphs[k])
                   ELSE ParagraphSegments(paragraphs[k])])

(***************************************************************************)
(* C36: a paragraph whose first line starts with a list marker, a bullet,  *)
(* a dash, an asterisk or a number followed by a dot such as "1. ", is     *)
(* recognised as a list by preprocess_text and is split into one segment   *)
(* per list item, in document order.                                       *)
(***************************************************************************)
C36_ListParagraphsSplitIntoItems ==
    pc # "idle" => segments = ListsSplit(text_content)

(***************************************************************************)
(* What the claims about the study session speak of                        *)
(***************************************************************************)
Nodes == {"greet_user", "extract_topic", "search_flashcards", "ask_question", "grade_answer"}

\* graph.invoke has begun and has neither returned nor raised
Invoking == study.at \in Nodes \cup {"entry"}

\* graph.invoke has returned, routing having reached END, or has raised
ReachedEnd == study.at = END
Raised == study.at = "raised"

NoNodeTwice ==
    \A i, j \in 1..Len(study.ran) : i # j => study.ran[i] # study.ran[j]

AllAsked(st) ==
    \A i \in 0..(Len(st.retrieved_cards) - 1) :
        \E j \in 1..Len(st.asked_card_indices) : st.asked_card_indices[j] = i

NoDuplicates(seq) == \A i, j \in 1..Len(seq) : i # j => seq[i] # seq[j]

\* the question messages of the session, in the order they were appended
Questions(st) == SelectSeq(st.messages, LAMBDA m : m.type = "ai" /\ m.content = "question")

\* the step is a run of the node
Runs(node) == study.at = node /\ study'.ran = Append(study.ran, node)

\* the step is ask_question asking a card
AsksCard ==
    /\ Runs("ask_question")
    /\ Len(study'.state.asked_card_indices) > Len(study.state.asked_card_indices)

\* the card asked was not asked before in the session
AsksUnaskedCard ==
    \E i \in 0..(Len(study.state.retrieved_cards) - 1) :
        /\ \A j \in 1..Len(study.state.asked_card_indices) :
              study.state.asked_card_indices[j] # i
        /\ study'.state.asked_card_indices = Append(study.state.asked_card_indices, i)
        /\ study'.state.current_card = study.state.retrieved_cards[i + 1]
        /\ study'.state.retrieved_cards = study.state.retrieved_cards

\* the step marks the session complete
MarksComplete == ~study.state.session_complete /\ study'.state.session_complete

\* the step is the search of a topic that finds no card, the tool having
\* returned none or raised
SearchFindsNothing ==
    /\ Runs("search_flashcards")
    /\ study.state.study_topic \notin {NoString, ""}
    /\ study'.state.retrieved_cards = <<>>

\* the step leaves a session without state: a reset, or a new session begun
SessionReset == study'.state = NewSessionState

\* no card is asked by the step
NothingAsked ==
    /\ study'.state.asked_card_indices = study.state.asked_card_indices
    /\ study'.state.current_card = study.state.current_card
    /\ Questions(study'.state) = Questions(study.state)

\* what C38 says of the indices and of a complete session
AskedOnceEach ==
    /\ AsksCard => AsksUnaskedCard
    /\ NoDuplicates(study'.state.asked_card_indices)
    /\ Len(study'.state.asked_card_indices) <= Len(study'.state.retrieved_cards)
    /\ study.state.session_complete => (SessionReset \/ NothingAsked)

(***************************************************************************)
(* C38, as claimed: within one study session ask_question never selects a  *)
(* card whose index is already in asked_card_indices, so                   *)
(* asked_card_indices holds no duplicates and never more entries than      *)
(* retrieved cards; the session is marked complete exactly when            *)
(* ask_question runs with every retrieved card already asked; once         *)
(* complete no further card is asked until the session is reset.           *)
(***************************************************************************)
C38_CompleteExactlyWhenAllAsked ==
    [][/\ AskedOnceEach
       /\ MarksComplete <=> (Runs("ask_question") /\ AllAsked(study.state))
      ]_vars

(***************************************************************************)
(* C38, amended: the same, the session being marked complete exactly when  *)
(* ask_question runs with every retrieved card already asked or            *)
(* search_flashcards_node finds no card for the topic.                     *)
(***************************************************************************)
C38_CompleteWhenAllAskedOrNoneFound ==
    [][/\ AskedOnceEach
       /\ MarksComplete <=> \/ Runs("ask_question") /\ AllAsked(study.state)
                            \/ SearchFindsNothing
      ]_vars

\* both cards of a session asked, the session marked complete by
\* ask_question, and a later message of the user answered with no card asked
C38_Witness ==
    /\ study.at = "idle"
    /\ study.stored
    /\ study.state.session_complete
    /\ study.state.retrieved_cards = <<1, 2>>
    /\ study.state.asked_card_indices = <<0, 1>>
    /\ Len(Questions(study.state)) = 2
    /\ Last(study.state.messages).type = "human"
    /\ \E i \in 1..(Len(study.state.messages) - 1) :
          study.state.messages[i].content \in {"summary", "done"}

(***************************************************************************)
(* C39: when ask_question asks the k-th card of a session, k counted from  *)
(* 1, out of N retrieved cards, the question message it appends is         *)
(* numbered k of N.                                                        *)
(***************************************************************************)
C39_QuestionNumberedKofN ==
    \A k \in 1..Len(Questions(study.state)) :
        /\ Questions(study.state)[k].number = k
        /\ Questions(study.state)[k].total = Len(study.state.retrieved_cards)

=============================================================================
